---------------------------- MODULE Spec2Model ----------------------------
(***************************************************************************)
(* Verification model of the NAVIGUIDE front-end geometry code.            *)
(*                                                                         *)
(* Part 1 models useLegContext (src/naviguide-app/src/hooks/               *)
(* useLegContext.js): the snap-to-route projection, the cumulative and     *)
(* remaining distances, the active-leg identification, the bearing and     *)
(* the ETA.                                                                *)
(*                                                                         *)
(* Numbers.  The source computes in IEEE doubles; the model computes in    *)
(* decimal fixed point with explicit units:                                *)
(*   coordinates ....... centidegrees   (1 degree  = DEG  = 100)           *)
(*   t ................. thousandths    (1.0       = ONE_T = 1000)         *)
(*   radians, sin, cos . millionths     (1.0       = FIX  = 1000000)       *)
(*   distances, ETA .... thousandths    (1 nm, 1 h = MILLI = 1000)         *)
(*   angles in degrees . millidegrees                                      *)
(* Every operation rounds to nearest, as the floating-point operation it   *)
(* stands for does.  The trigonometric series are valid for |x| <= pi/2    *)
(* and the haversine for coordinate differences below 3.6 degrees, which   *)
(* covers the chart the model draws its inputs from.                       *)
(***************************************************************************)
EXTENDS Integers, Naturals, Sequences, FiniteSets, TLC

\* A value that may be null or undefined in the source is a sequence of length
\* 0 (Null) or 1 (Some(v)).
Null == << >>
Some(v) == <<v>>
Val(o) == o[1]

DEG   == 10 * 10
ONE_T == 10 * 10 * 10
FIX   == 1000 * 1000
MILLI == 10 * 10 * 10

\* Binding the value of e to the parameter of F (the source evaluates an
\* expression once and names the result).
With(e, F(_)) == CHOOSE r \in {F(x) : x \in {e}} : TRUE
With2(e1, e2, F(_, _)) == CHOOSE r \in {F(x, y) : x \in {e1}, y \in {e2}} : TRUE

Abs(x) == IF x < 0 THEN -x ELSE x
Sign(x) == IF x < 0 THEN -1 ELSE IF x > 0 THEN 1 ELSE 0
Max2(a, b) == IF a >= b THEN a ELSE b
Min2(a, b) == IF a <= b THEN a ELSE b

\* a / b rounded to the nearest integer, ties away from zero (b > 0)
DivR(a, b) ==
  With2(a, b, LAMBDA x, y : Sign(x) * ((2 * Abs(x) + y) \div (2 * y)))

\* Math.round: nearest integer, ties towards +Infinity (value in 1/unit)
MathRound(a, unit) == (2 * a + unit) \div (2 * unit)

\* a * b / FIX without leaving 32 bits
MulFix(a, b) ==
  With2(a, b, LAMBDA x, y :
    LET s  == Sign(x) * Sign(y)
        ah == Abs(x) \div 1000    al == Abs(x) % 1000
        bh == Abs(y) \div 1000    bl == Abs(y) % 1000
    IN  s * (ah * bh + DivR(ah * bl + al * bh + DivR(al * bl, 1000), 1000)))

\* a * FIX / b without leaving 32 bits (0 <= a, 0 < b, a <= 2 * b)
DivFix(a, b) ==
  With2(a, b, LAMBDA x, y :
    With2((x * 1000) \div y, (x * 1000) % y, LAMBDA q1, r1 :
      With2((r1 * 1000) \div y, (r1 * 1000) % y, LAMBDA q2, r2 :
        q1 * 1000 + q2 + (IF r2 >= y - r2 THEN 1 ELSE 0))))

\* Math.sqrt of a value in FIX^-2 units, result in FIX^-1 units
RECURSIVE SqrtIter(_, _)
SqrtIter(n, x) ==
  With((x + n \div x) \div 2, LAMBDA y :
    IF y >= x THEN x ELSE SqrtIter(n, y))
Sqrt(n) ==
  With(n, LAMBDA m :
    IF m <= 0 THEN 0
    ELSE With(SqrtIter(m, 46341), LAMBDA r :
           IF m - r * r > r THEN r + 1 ELSE r))

PI_FIX == 3141593

\* Math.sin / Math.cos, argument and result in millionths, |x| <= pi/2
Sin(x) ==
  With(x, LAMBDA v : With(MulFix(v, v), LAMBDA x2 :
    LET p5 == FIX - DivR(x2, 110)
        p4 == FIX - DivR(MulFix(x2, p5), 72)
        p3 == FIX - DivR(MulFix(x2, p4), 42)
        p2 == FIX - DivR(MulFix(x2, p3), 20)
        p1 == FIX - DivR(MulFix(x2, p2), 6)
    IN  MulFix(v, p1)))

Cos(x) ==
  With(MulFix(x, x), LAMBDA x2 :
    LET p5 == FIX - DivR(x2, 90)
        p4 == FIX - DivR(MulFix(x2, p5), 56)
        p3 == FIX - DivR(MulFix(x2, p4), 30)
        p2 == FIX - DivR(MulFix(x2, p3), 12)
    IN  FIX - DivR(MulFix(x2, p2), 2))

\* Math.asin for small arguments (|r| < 0.05), millionths
Asin(r) ==
  With(r, LAMBDA v : With(MulFix(v, v), LAMBDA r2 :
    With(MulFix(r2, v), LAMBDA r3 :
      v + DivR(r3, 6) + DivR(3 * MulFix(r3, r2), 40))))

\* atan(w) for |w| <= tan(pi/8), millionths
AtanSmall(w) ==
  With(w, LAMBDA v : With(MulFix(v, v), LAMBDA w2 :
    LET p5 == DivR(FIX, 9)  - DivR(MulFix(w2, FIX), 11)
        p4 == DivR(FIX, 7)  - MulFix(w2, p5)
        p3 == DivR(FIX, 5)  - MulFix(w2, p4)
        p2 == DivR(FIX, 3)  - MulFix(w2, p3)
        p1 == FIX - MulFix(w2, p2)
    IN  MulFix(v, p1)))

\* atan(z) for 0 <= z <= 1, millionths
Atan01(z) ==
  With(z, LAMBDA v :
    IF v <= 414214 THEN AtanSmall(v)
    ELSE DivR(PI_FIX, 4) - AtanSmall(DivFix(FIX - v, FIX + v)))

\* Math.atan2(y, x) in millionths of a radian; atan2(0, 0) = 0
Atan2(y, x) ==
  With2(y, x, LAMBDA vy, vx :
    With(IF vy = 0 /\ vx = 0 THEN 0
         ELSE IF Abs(vy) <= Abs(vx) THEN Atan01(DivFix(Abs(vy), Abs(vx)))
         ELSE DivR(PI_FIX, 2) - Atan01(DivFix(Abs(vx), Abs(vy))),
      LAMBDA base :
        With(IF vx >= 0 THEN base ELSE PI_FIX - base, LAMBDA q :
          IF vy < 0 THEN -q ELSE q)))

\* a point is [lon, lat]
Lon(pt) == pt[1]
Lat(pt) == pt[2]

R_NM == 3440065

\* degrees (centidegrees) -> radians (millionths)
toRad(deg) == DivR(deg * 174533, 1000)

\* great-circle distance in thousandths of a nautical mile
haversineNmFormula(lat1, lon1, lat2, lon2) ==
  With2(Sin(DivR(toRad(lat2 - lat1), 2)), Sin(DivR(toRad(lon2 - lon1), 2)),
    LAMBDA sLat, sLon :
      With(sLat * sLat
           + MulFix(MulFix(Cos(toRad(lat1)), Cos(toRad(lat2))), sLon * sLon),
        LAMBDA a : MulFix(2 * R_NM, Asin(Sqrt(a)))))

\* initial bearing in millidegrees, 0 <= bearing < 360000
initialBearingFormula(lat1, lon1, lat2, lon2) ==
  With2(toRad(lat1), toRad(lat2), LAMBDA phi1, phi2 :
    With(toRad(lon2 - lon1), LAMBDA dl :
      With2(MulFix(Sin(dl), Cos(phi2)),
            MulFix(Cos(phi1), Sin(phi2))
              - MulFix(MulFix(Sin(phi1), Cos(phi2)), Cos(dl)),
        LAMBDA y, x :
          (DivR(MulFix(Atan2(y, x), 57295780), 1000) + 360000) % 360000)))

(***************************************************************************)
(* The chart: the points the model draws vessel positions, route           *)
(* coordinates and stops from.  Points are [lon, lat] pairs as in the      *)
(* route segments of the source.                                           *)
(***************************************************************************)
P1 == <<-100, 4600>>
P2 == <<-200, 4600>>
P3 == <<-300, 4600>>
P4 == <<-200, 4700>>
PM == <<-150, 4600>>
PolySeq   == <<P1, P2, P3, P4>>
VesselSeq == PolySeq \o <<PM>>
\* the feet of the perpendiculars from the vessel points to the oblique edges
FeetSeq   == <<<<-125, 4625>>, <<-150, 4650>>, <<-225, 4675>>, <<-250, 4650>>>>
ChartPts  == VesselSeq \o FeetSeq
PolyPts   == {PolySeq[i] : i \in DOMAIN PolySeq}
VesselPts == {VesselSeq[i] : i \in DOMAIN VesselSeq}
PtIdx(pt) == CHOOSE i \in DOMAIN ChartPts : ChartPts[i] = pt

\* Math.sin and friends are pure: haversineNm (from a vessel point to a chart
\* point) and initialBearing (from a chart point to a route point) are
\* evaluated once per pair of points, when the module loads, and the values
\* are looked up afterwards.
VARIABLE chart  \* [haversineNm |-> table, initialBearing |-> table]

HaversineTable ==
  [i \in DOMAIN VesselSeq |-> [j \in DOMAIN ChartPts |->
     haversineNmFormula(Lat(ChartPts[i]), Lon(ChartPts[i]),
                        Lat(ChartPts[j]), Lon(ChartPts[j]))]]
BearingTable ==
  [i \in DOMAIN ChartPts |-> [j \in DOMAIN PolySeq |->
     initialBearingFormula(Lat(ChartPts[i]), Lon(ChartPts[i]),
                           Lat(ChartPts[j]), Lon(ChartPts[j]))]]
ChartInit ==
  chart = [haversineNm |-> HaversineTable, initialBearing |-> BearingTable]

haversineNm(lat1, lon1, lat2, lon2) ==
  chart.haversineNm[PtIdx(<<lon1, lat1>>)][PtIdx(<<lon2, lat2>>)]
initialBearing(lat1, lon1, lat2, lon2) ==
  chart.initialBearing[PtIdx(<<lon1, lat1>>)][PtIdx(<<lon2, lat2>>)]

(***************************************************************************)
(* useLegContext                                                           *)
(***************************************************************************)
DEFAULT_SPEED_KNOTS == 7
Infinity == 2147483647

\* JS arrays are 0-based; a[i] of the source is At(a, i)
At(a, i) == a[i + 1]

\* projectOnSegment without the Math.max(0, Math.min(1, t)) of line 73
projectOnSegmentUnclamped(pLat, pLon, aLat, aLon, bLat, bLon) ==
  LET dx == bLon - aLon   dy == bLat - aLat
      lenSq == dx * dx + dy * dy
      t  == IF lenSq > 0
            THEN DivR(((pLon - aLon) * dx + (pLat - aLat) * dy) * ONE_T, lenSq)
            ELSE 0
      qLon == aLon + DivR(t * dx, ONE_T)
      qLat == aLat + DivR(t * dy, ONE_T)
  IN  [point |-> <<qLon, qLat>>, t |-> t,
       distNm |-> haversineNm(pLat, pLon, qLat, qLon)]

projectOnSegment(pLat, pLon, aLat, aLon, bLat, bLon) ==
  LET ax == aLon   ay == aLat
      bx == bLon   by == bLat
      px == pLon   py == pLat
      dx == bx - ax   dy == by - ay
      lenSq == dx * dx + dy * dy
      t  == IF lenSq > 0
            THEN Max2(0, Min2(ONE_T,
                   DivR(((px - ax) * dx + (py - ay) * dy) * ONE_T, lenSq)))
            ELSE 0
      qLon == ax + DivR(t * dx, ONE_T)
      qLat == ay + DivR(t * dy, ONE_T)
  IN  [point |-> <<qLon, qLat>>, t |-> t,
       distNm |-> haversineNm(pLat, pLon, qLat, qLon)]

\* FlattenFrom with the junction dropped only where it repeats the last point
RECURSIVE FlattenFromKeepJunction(_, _, _)
FlattenFromKeepJunction(segs, k, polyline) ==
  IF k > Len(segs) THEN polyline
  ELSE With(IF segs[k].coords = Null \/ Len(Val(segs[k].coords)) < 2
            THEN polyline
            ELSE IF Len(polyline) = 0
                    \/ Val(segs[k].coords)[1] # polyline[Len(polyline)]
            THEN polyline \o Val(segs[k].coords)
            ELSE polyline \o Tail(Val(segs[k].coords)),
            LAMBDA next : FlattenFromKeepJunction(segs, k + 1, next))

\* step 1: the loop over routeSegments, from segment k on
RECURSIVE FlattenFrom(_, _, _)
FlattenFrom(segs, k, polyline) ==
  IF k > Len(segs) THEN polyline
  ELSE With(IF segs[k].coords = Null \/ Len(Val(segs[k].coords)) < 2
            THEN polyline
            ELSE IF Len(polyline) = 0
            THEN polyline \o Val(segs[k].coords)
            ELSE polyline \o Tail(Val(segs[k].coords)),
            LAMBDA next : FlattenFrom(segs, k + 1, next))
\* Flatten as the plain concatenation of every coords array
RECURSIVE FlattenAll(_)
FlattenAll(segs) ==
  IF segs = << >> THEN << >>
  ELSE (IF segs[1].coords = Null THEN << >> ELSE Val(segs[1].coords))
       \o FlattenAll(Tail(segs))

Flatten(segs) == FlattenFrom(segs, 1, << >>)

\* SnapStep that forgets to record the new best distance
SnapStepStaleDist(best, i, res) ==
  IF res.distNm < best.bestDist
  THEN [bestDist |-> best.bestDist, bestSnap |-> Some(res.point),
        bestSegIdx |-> i, bestT |-> res.t]
  ELSE best

\* SnapStep with bestSnap assigned by the first improvement only
SnapStepStalePoint(best, i, res) ==
  IF res.distNm < best.bestDist
  THEN [bestDist |-> res.distNm,
        bestSnap |-> IF best.bestSnap = Null THEN Some(res.point) ELSE best.bestSnap,
        bestSegIdx |-> i, bestT |-> res.t]
  ELSE best

\* step 2: the loop over the edges, from edge i on
SnapStep(best, i, res) ==
  IF res.distNm < best.bestDist
  THEN [bestDist |-> res.distNm, bestSnap |-> Some(res.point),
        bestSegIdx |-> i, bestT |-> res.t]
  ELSE best
RECURSIVE SnapFrom(_, _, _, _, _)
SnapFrom(polyline, lat, lon, i, best) ==
  IF ~(i < Len(polyline) - 1) THEN best
  ELSE With(projectOnSegment(lat, lon,
              Lat(At(polyline, i)), Lon(At(polyline, i)),
              Lat(At(polyline, i + 1)), Lon(At(polyline, i + 1))),
            LAMBDA res :
              With(SnapStep(best, i, res),
                   LAMBDA next : SnapFrom(polyline, lat, lon, i + 1, next)))
Snap(polyline, lat, lon) ==
  SnapFrom(polyline, lat, lon, 0,
    [bestDist |-> Infinity, bestSnap |-> Null, bestSegIdx |-> 0, bestT |-> 0])

EdgeNm(polyline, i) ==
  haversineNm(Lat(At(polyline, i)), Lon(At(polyline, i)),
              Lat(At(polyline, i + 1)), Lon(At(polyline, i + 1)))

\* step 3: whole edges before the snapped edge, then the partial edge
RECURSIVE CoveredFrom(_, _, _, _)
CoveredFrom(polyline, i, bestSegIdx, acc) ==
  IF ~(i < bestSegIdx) THEN acc
  ELSE With(acc + EdgeNm(polyline, i),
            LAMBDA next : CoveredFrom(polyline, i + 1, bestSegIdx, next))
\* NmCoveredTotal without the partial edge
NmCoveredWholeEdges(polyline, bestSegIdx, bestT) ==
  CoveredFrom(polyline, 0, bestSegIdx, 0)
NmCoveredTotal(polyline, bestSegIdx, bestT) ==
  CoveredFrom(polyline, 0, bestSegIdx, 0)
    + DivR(bestT * EdgeNm(polyline, bestSegIdx), ONE_T)

\* step 4: nearest polyline point of a stop; st = <<best, bestD>>
NearestStep(st, i, d) == IF d < st[2] THEN <<i, d>> ELSE st
RECURSIVE NearestFrom(_, _, _, _, _)
NearestFrom(polyline, stopLat, stopLon, i, st) ==
  IF ~(i < Len(polyline)) THEN st[1]
  ELSE With(NearestStep(st, i,
              haversineNm(stopLat, stopLon,
                          Lat(At(polyline, i)), Lon(At(polyline, i)))),
            LAMBDA next : NearestFrom(polyline, stopLat, stopLon, i + 1, next))
nearestPolylineIdx(polyline, stopLat, stopLon) ==
  NearestFrom(polyline, stopLat, stopLon, 0, <<0, Infinity>>)

\* Array.prototype.sort with (a, b) => a.polyIdx - b.polyIdx: stable
RECURSIVE InsertByPolyIdx(_, _)
InsertByPolyIdx(sorted, e) ==
  IF sorted = << >> THEN <<e>>
  ELSE IF sorted[Len(sorted)].polyIdx - e.polyIdx > 0
       THEN With(InsertByPolyIdx(SubSeq(sorted, 1, Len(sorted) - 1), e),
                 LAMBDA front : Append(front, sorted[Len(sorted)]))
       ELSE Append(sorted, e)
RECURSIVE SortFrom(_, _, _)
SortFrom(a, k, sorted) ==
  IF k > Len(a) THEN sorted
  ELSE With(InsertByPolyIdx(sorted, a[k]),
            LAMBDA next : SortFrom(a, k + 1, next))
SortByPolyIdx(a) == SortFrom(a, 1, << >>)

\* stops.map(s => ({stop: s, polyIdx: ...})), from stop k on
RECURSIVE MapStopsFrom(_, _, _, _)
MapStopsFrom(polyline, stops, k, out) ==
  IF k > Len(stops) THEN out
  ELSE With(Append(out,
              [stop |-> stops[k],
               polyIdx |-> nearestPolylineIdx(polyline, stops[k].lat,
                                              stops[k].lon)]),
            LAMBDA next : MapStopsFrom(polyline, stops, k + 1, next))

StopIndices(polyline, itineraryPts) ==
  With(MapStopsFrom(polyline,
         IF itineraryPts = Null THEN << >> ELSE Val(itineraryPts), 1, << >>),
       LAMBDA mapped : SortByPolyIdx(mapped))

\* stopIndices[i]?.stop : undefined (Null) outside the array
StopAt(stopIndices, i) ==
  IF i >= 0 /\ i < Len(stopIndices) THEN Some(At(stopIndices, i).stop)
  ELSE Null

\* LegFrom with >= in place of > in the scan
RECURSIVE LegFromAtOrAfter(_, _, _, _)
LegFromAtOrAfter(stopIndices, bestSegIdx, i, dflt) ==
  IF ~(i < Len(stopIndices)) THEN dflt
  ELSE IF At(stopIndices, i).polyIdx >= bestSegIdx
       THEN [toStop   |-> Some(At(stopIndices, i).stop),
             toIdx    |-> i,
             fromStop |-> IF i > 0 THEN Some(At(stopIndices, i - 1).stop)
                                   ELSE Some(At(stopIndices, 0).stop),
             fromIdx  |-> IF i > 0 THEN i - 1 ELSE 0]
       ELSE LegFromAtOrAfter(stopIndices, bestSegIdx, i + 1, dflt)

\* the scan for the stop immediately after the snapped position
RECURSIVE LegFrom(_, _, _, _)
LegFrom(stopIndices, bestSegIdx, i, dflt) ==
  IF ~(i < Len(stopIndices)) THEN dflt
  ELSE IF At(stopIndices, i).polyIdx > bestSegIdx
       THEN [toStop   |-> Some(At(stopIndices, i).stop),
             toIdx    |-> i,
             fromStop |-> IF i > 0 THEN Some(At(stopIndices, i - 1).stop)
                                   ELSE Some(At(stopIndices, 0).stop),
             fromIdx  |-> IF i > 0 THEN i - 1 ELSE 0]
       ELSE LegFrom(stopIndices, bestSegIdx, i + 1, dflt)
ActiveLeg(stopIndices, bestSegIdx) ==
  LegFrom(stopIndices, bestSegIdx, 0,
    [fromStop |-> StopAt(stopIndices, 0),
     toStop   |-> StopAt(stopIndices, Len(stopIndices) - 1),
     fromIdx  |-> 0,
     toIdx    |-> Len(stopIndices) - 1])

\* stopIndices[toIdx]?.polyIdx ?? polyline.length - 1
ToStopPolyIdx(polyline, stopIndices, toIdx) ==
  IF toIdx >= 0 /\ toIdx < Len(stopIndices)
  THEN At(stopIndices, toIdx).polyIdx
  ELSE Len(polyline) - 1

\* step 5
RECURSIVE RemainingFrom(_, _, _, _)
RemainingFrom(polyline, i, toStopPolyIdx, acc) ==
  IF ~(i < toStopPolyIdx) THEN acc
  ELSE With(acc + EdgeNm(polyline, i),
            LAMBDA next : RemainingFrom(polyline, i + 1, toStopPolyIdx, next))
\* NmRemainingToStop counting the snapped edge in full
NmRemainingWholeEdge(polyline, bestSegIdx, bestT, toStopPolyIdx) ==
  IF toStopPolyIdx > bestSegIdx
  THEN RemainingFrom(polyline, bestSegIdx, toStopPolyIdx, 0)
  ELSE 0
NmRemainingToStop(polyline, bestSegIdx, bestT, toStopPolyIdx) ==
  IF toStopPolyIdx > bestSegIdx
  THEN RemainingFrom(polyline, bestSegIdx + 1, toStopPolyIdx,
         DivR((ONE_T - bestT) * EdgeNm(polyline, bestSegIdx), ONE_T))
  ELSE 0

\* step 6
Bearing(polyline, bestSegIdx, snap) ==
  IF bestSegIdx < Len(polyline) - 1
  THEN initialBearing(Lat(snap), Lon(snap),
         Lat(At(polyline, Min2(bestSegIdx + 1, Len(polyline) - 1))),
         Lon(At(polyline, Min2(bestSegIdx + 1, Len(polyline) - 1))))
  ELSE 0

\* step 7: hours in thousandths
EtaHours(nmRemainingToStop, speed) ==
  IF speed > 0 THEN DivR(nmRemainingToStop, speed) ELSE 0

NameOr(stop, dflt) == IF stop = Null THEN dflt ELSE Val(stop).name

NoResult == [ret |-> Null, loc |-> Null]

\* the return statement: the LegContext (ret) and the locals it is built from
LegContextOf(polyline, best, nmCoveredTotal, stopIndices, leg, toStopPolyIdx, nmRemainingToStop, bearing, etaHours, speed) ==
  [ret |-> Some([fromStopIndex     |-> leg.fromIdx,
                 fromStop          |-> NameOr(leg.fromStop, "Depart"),
                 toStopIndex       |-> leg.toIdx,
                 toStop            |-> NameOr(leg.toStop, "Arrivee"),
                 nmCovered         |-> MathRound(nmCoveredTotal, MILLI),
                 nmRemainingToStop |-> MathRound(nmRemainingToStop, MILLI),
                 etaHours          |-> MathRound(etaHours, MILLI),
                 bearing           |-> MathRound(bearing, MILLI),
                 snappedPosition   |-> Val(best.bestSnap),
                 speedKnots        |-> speed]),
   loc |-> Some([polyline |-> polyline,
                 bestDist |-> best.bestDist, bestSnap |-> best.bestSnap,
                 bestSegIdx |-> best.bestSegIdx, bestT |-> best.bestT,
                 nmCoveredTotal |-> nmCoveredTotal,
                 stopIndices |-> stopIndices,
                 leg |-> leg,
                 toStopPolyIdx |-> toStopPolyIdx,
                 nmRemainingToStop |-> nmRemainingToStop,
                 bearing |-> bearing, etaHours |-> etaHours])]

\* steps 3 to 7 and the return, once the vessel is snapped
TrackSnapped(polyline, best, itineraryPts, speed) ==
  With(NmCoveredTotal(polyline, best.bestSegIdx, best.bestT),
  LAMBDA nmCoveredTotal :
  With(StopIndices(polyline, itineraryPts),
  LAMBDA stopIndices :
  With(ActiveLeg(stopIndices, best.bestSegIdx),
  LAMBDA leg :
  With(ToStopPolyIdx(polyline, stopIndices, leg.toIdx),
  LAMBDA toStopPolyIdx :
  With(NmRemainingToStop(polyline, best.bestSegIdx, best.bestT, toStopPolyIdx),
  LAMBDA nmRemainingToStop :
  With(Bearing(polyline, best.bestSegIdx, Val(best.bestSnap)),
  LAMBDA bearing :
  With(EtaHours(nmRemainingToStop, speed),
  LAMBDA etaHours :
    LegContextOf(polyline, best, nmCoveredTotal, stopIndices, leg,
                 toStopPolyIdx, nmRemainingToStop, bearing, etaHours,
                 speed))))))))

\* The memoised computation: the returned LegContext (ret) and the values
\* of the locals at the return statement (loc); both Null on an early exit.
useLegContext(cLat, cLon, segs, itineraryPts, speedArg) ==
  IF cLat = Null \/ cLon = Null THEN NoResult
  ELSE IF segs = Null \/ Len(Val(segs)) = 0 THEN NoResult
  ELSE With(Flatten(Val(segs)), LAMBDA polyline :
    IF Len(polyline) < 2 THEN NoResult
    ELSE With(Snap(polyline, Val(cLat), Val(cLon)), LAMBDA best :
      IF best.bestSnap = Null THEN NoResult
      ELSE TrackSnapped(polyline, best, itineraryPts,
             IF speedArg = Null THEN DEFAULT_SPEED_KNOTS ELSE Val(speedArg))))

(***************************************************************************)
(* useMarkerOffsets                                                        *)
(*                                                                         *)
(* Screen coordinates are whole pixels; distances, pushes and offsets are  *)
(* in hundredths of a pixel (1 px = CPX = 100), unit vectors in            *)
(* thousandths.                                                            *)
(***************************************************************************)
OVERLAP_THRESHOLD == 52
DEBOUNCE_MS == 120
CPX == 10 * 10

\* map.project([p.lon, p.lat]) of the map library: a screen whose scale
\* is zoom pixels per degree
project(p, zoom) == [x |-> p.lon * zoom, y |-> p.lat * zoom]
ProjectAll(points, zoom) == [k \in DOMAIN points |-> project(points[k], zoom)]

\* points.map(() => [0, 0])
ZeroOffsets(points) == [k \in DOMAIN points |-> <<0, 0>>]

\* Math.sqrt(dx * dx + dy * dy)
ScreenDist(dx, dy) == Sqrt((dx * dx + dy * dy) * CPX * CPX)

\* line 274 without the margin
PushNoMargin(dist) == DivR(OVERLAP_THRESHOLD * CPX - dist, 2)
\* line 274: (OVERLAP_THRESHOLD - dist) / 2 + 3
Push(dist) == DivR(OVERLAP_THRESHOLD * CPX - dist, 2) + 3 * CPX

\* PairStep where each assignment overwrites the entry
PairStepOverwrite(result, px, i, j) ==
  LET dx   == At(px, j).x - At(px, i).x
      dy   == At(px, j).y - At(px, i).y
      dist == ScreenDist(dx, dy)
      push == Push(dist)
      nx   == DivR(dx * CPX * 1000, dist)
      ny   == DivR(dy * CPX * 1000, dist)
      vx   == DivR(nx * push, 1000)
      vy   == DivR(ny * push, 1000)
  IN  IF dist < OVERLAP_THRESHOLD * CPX /\ 2 * dist > CPX
      THEN [result EXCEPT ![i + 1] = <<-vx, -vy>>, ![j + 1] = <<vx, vy>>]
      ELSE result

\* the body of the inner loop, lines 268-281
PairStep(result, px, i, j) ==
  LET dx   == At(px, j).x - At(px, i).x
      dy   == At(px, j).y - At(px, i).y
      dist == ScreenDist(dx, dy)
      push == Push(dist)
      nx   == DivR(dx * CPX * 1000, dist)
      ny   == DivR(dy * CPX * 1000, dist)
      vx   == DivR(nx * push, 1000)
      vy   == DivR(ny * push, 1000)
  IN  IF dist < OVERLAP_THRESHOLD * CPX /\ 2 * dist > CPX
      THEN [result EXCEPT ![i + 1] = <<@[1] - vx, @[2] - vy>>,
                          ![j + 1] = <<@[1] + vx, @[2] + vy>>]
      ELSE result

\* for (let j = i + 1; j < points.length; j++), from j on
RECURSIVE InnerFrom(_, _, _, _)
InnerFrom(result, px, i, j) ==
  IF ~(j < Len(px)) THEN result
  ELSE With(PairStep(result, px, i, j),
            LAMBDA next : InnerFrom(next, px, i, j + 1))

\* for (let i = 0; i < points.length; i++), from i on
RECURSIVE OuterFrom(_, _, _)
OuterFrom(result, px, i) ==
  IF ~(i < Len(px)) THEN result
  ELSE With(InnerFrom(result, px, i, i + 1),
            LAMBDA next : OuterFrom(next, px, i + 1))

\* steps 1 and 2 of compute: the value handed to setOffsets
Repulsion(points, zoom) ==
  OuterFrom(ZeroOffsets(points), ProjectAll(points, zoom), 0)

\* The state of one mounted useMarkerOffsets: a record with the fields
\*   points ..... the points argument of the last render
\*   mapReady ... mapRef.current?.getMap() yields a map
\*   zoom ....... the projection of the map
\*   offsets .... the useState cell, the value the hook returns
\*   timerRef ... Null, or Some([compute, due]): the pending setTimeout, the
\*                points its compute has captured, the ms left
\*   poll ....... Null, or Some([points, due]): the running setInterval
\*   listeners .. the schedule functions registered with map.on, each named
\*                by the points its compute has captured
\*   cleanup .... which cleanup the last effect returned:
\*                "none" (line 290), "poll" (lines 312-315), "off" (318-325)
\* and, for the observation of the debounce,
\*   age ........ Null, or Some(ms since the last zoomend or moveend)
\*   fires ...... the timer callbacks run since the last zoomend or moveend
\*   firedAge ... the age at which the last of them ran
\*   events ..... the zoomend and moveend events so far
VARIABLE marker

POLL_MS == 200

\* lines 253-286
compute(m, pts) ==
  IF ~m.mapReady \/ Len(pts) = 0 THEN m
  ELSE [m EXCEPT !.offsets = Repulsion(pts, m.zoom)]

\* lines 292-295
schedule(m, pts) ==
  [m EXCEPT !.timerRef = Some([compute |-> pts, due |-> DEBOUNCE_MS])]

\* lines 298-305; it returns false exactly when the map is absent
attachListeners(m, pts) ==
  IF ~m.mapReady THEN m
  ELSE compute([m EXCEPT !.listeners = Append(@, pts)], pts)

\* the effect of lines 289-326, run for the points pts
Effect(m, pts) ==
  IF Len(pts) = 0 THEN [m EXCEPT !.cleanup = "none"]
  ELSE IF ~m.mapReady
  THEN [m EXCEPT !.poll = Some([points |-> pts, due |-> POLL_MS]),
                 !.cleanup = "poll"]
  ELSE [attachListeners(m, pts) EXCEPT !.cleanup = "off"]

\* map.off(..., schedule): the registration of the last effect goes, the
\* last one in the list that captured these points
RECURSIVE OffLast(_, _)
OffLast(listeners, pts) ==
  IF listeners = << >> THEN << >>
  ELSE IF listeners[Len(listeners)] = pts
  THEN SubSeq(listeners, 1, Len(listeners) - 1)
  ELSE Append(OffLast(SubSeq(listeners, 1, Len(listeners) - 1), pts),
              listeners[Len(listeners)])

\* the cleanup the last effect returned
Cleanup(m) ==
  IF m.cleanup = "none" THEN m
  ELSE IF m.cleanup = "poll" THEN [m EXCEPT !.poll = Null, !.timerRef = Null]
  ELSE [m EXCEPT !.timerRef = Null,
                 !.listeners = IF m.mapReady THEN OffLast(@, m.points) ELSE @]

\* the first render: useState(() => points.map(() => [0, 0])), then the effect
Mount(pts, ready, zoom) ==
  Effect([points |-> pts, mapReady |-> ready, zoom |-> zoom,
          offsets |-> ZeroOffsets(pts), timerRef |-> Null, poll |-> Null,
          listeners |-> << >>, cleanup |-> "none",
          age |-> Null, fires |-> 0, firedAge |-> Null, events |-> 0], pts)

\* a render with another points array: the old effect is cleaned up and the
\* effect runs again
SetPoints(m, pts) == Effect([Cleanup(m) EXCEPT !.points = pts], pts)

\* zoomend or moveend: every registered schedule runs, in registration order
RECURSIVE Dispatch(_, _, _)
Dispatch(m, listeners, k) ==
  IF k > Len(listeners) THEN m
  ELSE Dispatch(schedule(m, listeners[k]), listeners, k + 1)

\* the setTimeout callback of line 294
TimerFired(m) == [compute(m, Val(m.timerRef).compute) EXCEPT !.timerRef = Null]

\* the setInterval callback of lines 309-311
PollFired(m) ==
  IF m.mapReady
  THEN [attachListeners(m, Val(m.poll).points) EXCEPT !.poll = Null]
  ELSE [m EXCEPT !.poll = Some([Val(m.poll) EXCEPT !.due = POLL_MS])]

(***************************************************************************)
(* App: the route-fetch effect (lines 644-774), its list of legs.          *)
(***************************************************************************)
\* The state of the route load: a record with the fields
\*   points ... the points state of line 371
\*   legs ..... the legs the last run of the effect has built
VARIABLE route

\* the names of ITINERARY_POINTS, in order (accents dropped)
ItineraryNames ==
  <<
    "Saint-Maur (Berry, Indre)",
    "La Rochelle",
    "Point intermediaire Avant Corse",
    "Ajaccio (Corse)",
    "Point intermediaire Apres Corse",
    "Point intermediaire Apres Corse",
    "Iles Canari",
    "Point intermediaire Cap Verde",
    "Sainte Lucie",
    "Fort-de-France (Martinique)",
    "Pointe-a-Pitre (Guadeloupe)",
    "Gustavia (Saint-Barthelemy)",
    "Marigot (Saint-Martin)",
    "Halifax (Nouvelle-Ecosse)",
    "Saint-Pierre (Saint-Pierre-et-Miquelon)",
    "Cayenne (Guyane)",
    "Papeete (Polynesie francaise)",
    "Mata-Utu (Wallis-et-Futuna)",
    "Noumea (Nouvelle-Caledonie)",
    "Point intermediaire detroit de Torres",
    "Point intermediaire haut Australie",
    "Point intermediaire haut Australie",
    "Point intermediaire haut Australie",
    "Sri Lanka",
    "Maldives",
    "Seichelles",
    "Dzaoudzi (Mayotte)",
    "Tromelin (TAAF)",
    "Saint-Gilles (La Reunion)",
    "Europa (TAAF)",
    "Point intermediaire Cap de la Bonne Esperance",
    "Point intermediaire Sainte Helene",
    "Point intermediaire Ascension",
    "Point intermediaire Ascension - Cap Verde",
    "Point intermediaire Cap Verde",
    "La Rochelle"
  >>
\* a point is its name and its identity (its place in the array it is in)
PointsNamed(names) == [i \in DOMAIN names |-> [name |-> names[i], id |-> i]]
ITINERARY_POINTS == PointsNamed(ItineraryNames)

MARIGOT == "Marigot (Saint-Martin)"
HALIFAX == "Halifax (Nouvelle-Ecosse)"
SAINT_PIERRE == "Saint-Pierre (Saint-Pierre-et-Miquelon)"
CAYENNE == "Cayenne (Guyane)"
skipFromNames == {MARIGOT, SAINT_PIERRE}

\* points.find((p) => p.name === name): the first such point
byName(points, name) ==
  points[CHOOSE i \in DOMAIN points :
           /\ points[i].name = name
           /\ \A j \in 1..(i - 1) : points[j].name # name]

\* the loop of lines 664-669, from i on
RECURSIVE SequentialLegs(_, _, _)
SequentialLegs(points, i, legs) ==
  IF ~(i < Len(points) - 1) THEN legs
  ELSE IF At(points, i).name \in skipFromNames
  THEN SequentialLegs(points, i + 1, legs)
  ELSE SequentialLegs(points, i + 1,
         Append(legs, [from |-> At(points, i), to |-> At(points, i + 1)]))

\* legs.findIndex((l) => l.to.name === name): 0-based, -1 when there is none
findIndexTo(legs, name) ==
  IF \E k \in DOMAIN legs : legs[k].to.name = name
  THEN (CHOOSE k \in DOMAIN legs :
          /\ legs[k].to.name = name
          /\ \A h \in 1..(k - 1) : legs[h].to.name # name) - 1
  ELSE -1

\* legs.splice(start, 0, leg) for 0 <= start <= legs.length
splice(legs, start, leg) ==
  SubSeq(legs, 1, start) \o <<leg>> \o SubSeq(legs, start + 1, Len(legs))

\* lines 673-677 and 680-684: the custom leg goes after the first leg that
\* arrives at fromName
InsertAfter(legs, points, fromName, toName) ==
  splice(legs, findIndexTo(legs, fromName) + 1,
         [from |-> byName(points, fromName), to |-> byName(points, toName)])

\* lines 662-684
BuildLegs(points) ==
  InsertAfter(InsertAfter(SequentialLegs(points, 0, << >>),
                          points, MARIGOT, CAYENNE),
              points, HALIFAX, SAINT_PIERRE)

\* the effect of line 644 for the value pts of points
RouteEffect(pts) ==
  [points |-> pts, legs |-> IF Len(pts) = 0 THEN << >> ELSE BuildLegs(pts)]

(***************************************************************************)
(* App: progressive loading of the route (lines 752-773) and the           *)
(* fit-bounds effect (lines 776-793).                                      *)
(***************************************************************************)
\* The loading state: a record with the useState cells segments, loading,
\* segProgress, the ref boundsApplied, and
\*   mapRef ..... whether mapRef.current is set
\*   batched .... whether React applies the state updates made after an
\*                await in one render (React 18) or one render per update
\*   run ........ the position of the async loop: Null when it is not
\*                running, else [i, accumulated] while it awaits the batch
\*                that starts at i
\*   fits ....... the values of segProgress at the calls of map.fitBounds
VARIABLE load

SEGMENT_BATCH_SIZE == 4

AppMounted(batched) ==
  [segments |-> << >>, loading |-> TRUE,
   segProgress |-> [done |-> 0, total |-> 0],
   boundsApplied |-> FALSE, mapRef |-> FALSE, batched |-> batched,
   run |-> Null, fits |-> << >>]

nonMaritimeNames ==
  {<<"Saint-Maur (Berry, Indre)", "La Rochelle">>,
   <<"La Rochelle", "Saint-Maur (Berry, Indre)">>}

\* what the /route request of a leg comes to: a route, an exception
\* (network error, malformed body), or a body that is neither a non-empty
\* FeatureCollection with a geometry nor a feature with a geometry
Replies == {"route", "error", "other"}

\* lines 686-750; the coordinates of a leg are written as the pair of the
\* identities of its ends.  The result is undefined (Null) when no branch
\* returns.
fetchLeg(leg, reply) ==
  IF <<leg.from.name, leg.to.name>> \in nonMaritimeNames
  THEN Some([from |-> leg.from, to |-> leg.to,
             coords |-> <<leg.from.id, leg.to.id>>, nonMaritime |-> TRUE])
  ELSE IF reply = "route"
  THEN Some([from |-> leg.from, to |-> leg.to,
             coords |-> <<leg.from.id, leg.to.id>>, nonMaritime |-> FALSE])
  ELSE IF reply = "error"
  THEN Some([from |-> leg.from, to |-> leg.to,
             coords |-> << >>, nonMaritime |-> FALSE])
  ELSE Null

\* (r) => r && r.coords && r.coords.length > 0
HasCoords(r) == r # Null /\ Len(Val(r).coords) > 0
\* accumulated.filter(...)
Valid(results) ==
  LET kept == SelectSeq(results, HasCoords)
  IN  [k \in DOMAIN kept |-> Val(kept[k])]

\* lines 776-793 without the test of segProgress
fitEffectAnyProgress(l) ==
  IF ~l.mapRef \/ Len(l.segments) = 0 THEN l
  ELSE IF l.boundsApplied THEN l
  ELSE [l EXCEPT !.boundsApplied = TRUE, !.fits = Append(@, l.segProgress)]

\* lines 776-793: the effect that runs after a render in which segments or
\* segProgress changed
fitEffect(l) ==
  IF ~l.mapRef \/ Len(l.segments) = 0 THEN l
  ELSE IF l.boundsApplied THEN l
  ELSE IF l.segProgress.done < l.segProgress.total /\ l.segProgress.total > 0
  THEN l
  ELSE [l EXCEPT !.boundsApplied = TRUE, !.fits = Append(@, l.segProgress)]

\* legs.slice(i, i + SEGMENT_BATCH_SIZE), i 0-based
slice(legs, i) == SubSeq(legs, i + 1, Min2(i + SEGMENT_BATCH_SIZE, Len(legs)))

\* lines 752-759: the async function up to its first await, and the render
\* that follows
startLoad(l, legs) ==
  fitEffect([l EXCEPT !.boundsApplied = FALSE,
                      !.loading = Len(legs) > 0,
                      !.segProgress = [done |-> 0, total |-> Len(legs)],
                      !.run = IF Len(legs) > 0
                              THEN Some([i |-> 0, accumulated |-> << >>])
                              ELSE Null])

\* the render after a state update: the fit-bounds effect runs
Rendered(l) == With(l, fitEffect)

\* line 765, setSegments([...valid])
setSegments(l, accumulated) == [l EXCEPT !.segments = Valid(accumulated)]
\* line 766, setSegProgress({ done: Math.min(i + SEGMENT_BATCH_SIZE, n), total: n })
setSegProgress(l, i, n) ==
  [l EXCEPT !.segProgress = [done |-> Min2(i + SEGMENT_BATCH_SIZE, n), total |-> n]]
\* lines 758 and 771: the loop awaits the next batch, or ends
nextBatch(l, i, n, accumulated) ==
  [l EXCEPT !.run = IF i + SEGMENT_BATCH_SIZE < n
                    THEN Some([i |-> i + SEGMENT_BATCH_SIZE,
                               accumulated |-> accumulated])
                    ELSE Null]

\* lines 760-772 with setLoading(false) only after the loop
batchDoneLoadingLast(l, legs, batchResults) ==
  With2(Val(l.run).i, Val(l.run).accumulated \o batchResults,
    LAMBDA i, accumulated :
      With(Rendered(setSegProgress(setSegments(l, accumulated), i, Len(legs))),
        LAMBDA l2 :
          [nextBatch(l2, i, Len(legs), accumulated) EXCEPT
             !.loading = i + SEGMENT_BATCH_SIZE < Len(legs)]))

\* lines 760-772: the loop from the moment Promise.all resolves with
\* batchResults to the next await or to the end, and the renders that
\* follow: one for the three updates, or one after each
batchDone(l, legs, batchResults) ==
  With2(Val(l.run).i, Val(l.run).accumulated \o batchResults,
    LAMBDA i, accumulated :
      With(IF l.batched THEN setSegments(l, accumulated)
           ELSE Rendered(setSegments(l, accumulated)),
        LAMBDA l1 :
          With(Rendered(setSegProgress(l1, i, Len(legs))),
            LAMBDA l2 :
              [nextBatch(l2, i, Len(legs), accumulated) EXCEPT
                 !.loading = IF i = 0 \/ ~(i + SEGMENT_BATCH_SIZE < Len(legs))
                             THEN FALSE ELSE @])))

(***************************************************************************)
(* App: the cache of the orchestrator plan (lines 346-363).                *)
(***************************************************************************)
\* The cache: a record with
\*   storage .... localStorage: key |-> Null or Some(text)
\*   now ........ Date.now(), in milliseconds
\*   latest ..... language |-> Null or Some([data, ts]), the entry of the
\*                latest setCachedPlan of the language that was stored
\*   read ....... Null, or Some([lang, ret]) when the last call was
\*                getCachedPlan(lang) and returned ret
VARIABLE cache

PLAN_CACHE_TTL == 24 * 60 * 60 * 1000
Langs == {"en", "fr"}

\* all the languages share one key
planCacheKeyShared(lang) == <<"naviguide_expedition_plan_v1_">>
\* line 349: the template string, as the pair of its two parts
planCacheKey(lang) == <<"naviguide_expedition_plan_v1_", lang>>

\* JSON.stringify({ data, ts }) and JSON.parse: the text is the list of the
\* member names and values
stringify(entry) == <<"data", entry.data, "ts", entry.ts>>
parse(raw) == [data |-> raw[2], ts |-> raw[4]]

CacheEmpty ==
  [storage |-> [k \in {planCacheKey(l) : l \in Langs} |-> Null],
   now |-> 0,
   latest |-> [l \in Langs |-> Null],
   read |-> Null]

\* lines 351-359
getCachedPlan(c, lang) ==
  With(c.storage[planCacheKey(lang)], LAMBDA raw :
    IF raw = Null
    THEN [c EXCEPT !.read = Some([lang |-> lang, ret |-> Null])]
    ELSE IF c.now - parse(Val(raw)).ts > PLAN_CACHE_TTL
    THEN [c EXCEPT !.storage[planCacheKey(lang)] = Null,
                   !.read = Some([lang |-> lang, ret |-> Null])]
    ELSE [c EXCEPT !.read = Some([lang |-> lang,
                                  ret |-> Some(parse(Val(raw)).data)])])

\* lines 361-363; localStorage.setItem stores the text, or raises (quota,
\* storage disabled) and the exception is swallowed
setCachedPlan(c, lang, data, stored) ==
  IF stored
  THEN [c EXCEPT
          !.storage[planCacheKey(lang)] =
             Some(stringify([data |-> data, ts |-> c.now])),
          !.latest[lang] = Some([data |-> data, ts |-> c.now]),
          !.read = Null]
  ELSE [c EXCEPT !.read = Null]

(***************************************************************************)
(* App: the simulation mode (lines 1877-1900, 1902-1923, 2080-2094, 2227). *)
(***************************************************************************)
\* The simulation state: a record with the useState cells simulationMode,
\* catamaranPos (Null or Some([lat, lon])), simPointIndex, segments, and
\*   fetched ...... the route request of the mount effect has ended
\*   legContext ... the value useLegContext returned at the last render
VARIABLE sim

\* the positions of ITINERARY_POINTS, <<lat, lon>> in hundredths of a degree
ItineraryLatLon ==
  <<
    <<4681, 164>>, <<4615, -117>>, <<4118, 844>>, <<4192, 874>>,
    <<4331, 866>>, <<4222, 984>>, <<2932, -1518>>, <<1392, -2453>>,
    <<1350, -6150>>, <<1459, -6107>>, <<1624, -6154>>, <<1789, -6285>>,
    <<1808, -6309>>, <<4465, -6357>>, <<4678, -5616>>, <<493, -5235>>,
    <<-1751, -14957>>, <<-1327, -17620>>, <<-2230, 16646>>, <<-1054, 14214>>,
    <<-898, 13578>>, <<-937, 10509>>, <<637, 8861>>, <<679, 8184>>,
    <<-1, 7335>>, <<-479, 5554>>, <<-1279, 4527>>, <<-1589, 5452>>,
    <<-2106, 5522>>, <<-2237, 4035>>, <<-3358, 1408>>, <<-1592, -574>>,
    <<-797, -1433>>, <<465, -2460>>, <<1392, -2453>>, <<4615, -117>>
  >>
LA_ROCHELLE_POS == [lat |-> 4615, lon |-> -117]

\* line 1885
activeCatamaranPos(s) ==
  IF s.catamaranPos # Null THEN Val(s.catamaranPos) ELSE LA_ROCHELLE_POS

\* lines 1897-1900: the hook is called with two arguments, so that
\* catamaranLat is the position object (or null), catamaranLon is the
\* segments array, and routeSegments and itineraryPoints are undefined
AppLegContext(s) ==
  useLegContext(IF s.simulationMode THEN Some(activeCatamaranPos(s)) ELSE Null,
                Some(s.segments), Null, Null, Null).ret

\* a render of App
AppRendered(s) == [s EXCEPT !.legContext = AppLegContext(s)]

SimOff ==
  AppRendered([simulationMode |-> FALSE, catamaranPos |-> Null,
               simPointIndex |-> 1, segments |-> << >>,
               fetched |-> FALSE, legContext |-> Null])

\* lines 2081-2091
onSimulationToggle(s) ==
  AppRendered(
    IF ~s.simulationMode
    THEN [s EXCEPT !.simulationMode = TRUE,
                   !.catamaranPos = Some(LA_ROCHELLE_POS),
                   !.simPointIndex = 1]
    ELSE [s EXCEPT !.simulationMode = FALSE, !.catamaranPos = Null])

\* lines 1888-1894
advanceCatamaranToNextMidpoint(s) ==
  IF s.simPointIndex >= Len(ItineraryLatLon) - 1 THEN s
  ELSE With2(At(ItineraryLatLon, s.simPointIndex),
             At(ItineraryLatLon, s.simPointIndex + 1),
         LAMBDA from, to :
           AppRendered(
             [s EXCEPT !.catamaranPos =
                          Some([lat |-> DivR(from[1] + to[1], 2),
                                lon |-> DivR(from[2] + to[2], 2)]),
                       !.simPointIndex = @ + 1]))

\* line 2230
onDrag(s, pos) == AppRendered([s EXCEPT !.catamaranPos = Some(pos)])

\* lines 1915-1922: the route request ends, with segments or with an error
routeFetched(s, segments) ==
  AppRendered([s EXCEPT !.segments = segments, !.fetched = TRUE])

(***************************************************************************)
(* App: the drawing mode (lines 406-542).                                  *)
(***************************************************************************)
\* The drawing state: a record with the useState cells drawingMode,
\* drawnPoints, drawnSegments, drawingLoading, canRedo, the refs
\* drawnPointsRef, drawnSegmentsRef, undonePointsRef, undoneSegmentsRef,
\* fetchIdRef, and
\*   inflight ... the calls of fetchDrawnSegment that await their response:
\*                [myFetchId, from, to], with the session they were started
\*                in and whether handleDrawUndo has run since
\*   session .... the number of calls of handleDrawStart so far
\*   landed ..... a response of a call that was in flight during an undo has
\*                appended its segment or changed drawingLoading
\*   crossed .... a response of a call started in an earlier session has
\*                appended its segment
\*   failed ..... a response came without coordinates
VARIABLE draw

DrawClosed ==
  [drawingMode |-> FALSE, drawnPoints |-> << >>, drawnSegments |-> << >>,
   drawingLoading |-> FALSE, canRedo |-> FALSE,
   drawnPointsRef |-> << >>, drawnSegmentsRef |-> << >>,
   undonePointsRef |-> << >>, undoneSegmentsRef |-> << >>,
   fetchIdRef |-> 0, inflight |-> {}, session |-> 0, landed |-> FALSE,
   crossed |-> FALSE, failed |-> FALSE]

\* lines 421-430
resetDrawState(d) ==
  [d EXCEPT !.drawnPoints = << >>, !.drawnSegments = << >>,
            !.canRedo = FALSE,
            !.drawnPointsRef = << >>, !.drawnSegmentsRef = << >>,
            !.undonePointsRef = << >>, !.undoneSegmentsRef = << >>,
            !.fetchIdRef = 0]

\* lines 432-435
handleDrawStart(d) ==
  resetDrawState([d EXCEPT !.drawingMode = TRUE, !.session = @ + 1])

\* lines 438-459 (the FeatureCollection it returns is not kept)
handleDrawFinish(d) == resetDrawState([d EXCEPT !.drawingMode = FALSE])

\* lines 461-470: fetchDrawnSegment up to its first await
fetchDrawnSegment(d, from, to) ==
  [d EXCEPT !.fetchIdRef = @ + 1,
            !.drawingLoading = TRUE,
            !.inflight = @ \cup {[myFetchId |-> d.fetchIdRef + 1,
                                  from |-> from, to |-> to,
                                  session |-> d.session, undone |-> FALSE]}]

\* lines 471-487: fetchDrawnSegment from the response on; coords is the
\* coordinate array of the response, empty when the request failed
FetchReturned(d, f, coords) ==
  LET applied == Len(coords) > 0 /\ d.fetchIdRef = f.myFetchId
      updated == Append(d.drawnSegmentsRef, [coords |-> coords])
      d1 == IF applied
            THEN [d EXCEPT !.drawnSegmentsRef = updated,
                           !.drawnSegments = updated]
            ELSE d
      d2 == IF d.fetchIdRef = f.myFetchId
            THEN [d1 EXCEPT !.drawingLoading = FALSE]
            ELSE d1
  IN  [d2 EXCEPT !.inflight = @ \ {f},
                 !.landed = @ \/ (f.undone /\ (applied \/ d2.drawingLoading # d.drawingLoading)),
                 !.crossed = @ \/ (applied /\ f.session # d.session),
                 !.failed = @ \/ Len(coords) = 0]

\* lines 490-506 without the two assignments that empty the redo stacks
handleDrawingClickKeepStacks(d, newPoint) ==
  LET updated == Append(d.drawnPointsRef, newPoint)
      d1 == [d EXCEPT !.drawnPointsRef = updated,
                      !.canRedo = FALSE,
                      !.drawnPoints = updated]
  IN  IF Len(updated) >= 2
      THEN fetchDrawnSegment(d1, updated[Len(updated) - 1], newPoint)
      ELSE d1

\* lines 490-506 (openSatelliteForDrawnPoint does not touch the drawing)
handleDrawingClick(d, newPoint) ==
  LET updated == Append(d.drawnPointsRef, newPoint)
      d1 == [d EXCEPT !.drawnPointsRef = updated,
                      !.undonePointsRef = << >>,
                      !.undoneSegmentsRef = << >>,
                      !.canRedo = FALSE,
                      !.drawnPoints = updated]
  IN  IF Len(updated) >= 2
      THEN fetchDrawnSegment(d1, updated[Len(updated) - 1], newPoint)
      ELSE d1

Last(a) == a[Len(a)]
ButLast(a) == SubSeq(a, 1, Len(a) - 1)

\* lines 508-525
handleDrawUndo(d) ==
  IF Len(d.drawnPointsRef) = 0 THEN d
  ELSE LET d1 == [d EXCEPT !.fetchIdRef = @ + 1,
                           !.drawnPointsRef = ButLast(@),
                           !.undonePointsRef = Append(@, Last(d.drawnPointsRef)),
                           !.inflight = {[f EXCEPT !.undone = TRUE] : f \in @}]
           d2 == IF Len(d1.drawnSegmentsRef) > 0
                 THEN [d1 EXCEPT !.drawnSegmentsRef = ButLast(@),
                                 !.undoneSegmentsRef =
                                    Append(@, Last(d1.drawnSegmentsRef))]
                 ELSE d1
       IN  [d2 EXCEPT !.drawnPoints = d2.drawnPointsRef,
                      !.drawnSegments = d2.drawnSegmentsRef,
                      !.drawingLoading = FALSE,
                      !.canRedo = TRUE]

\* lines 527-542
handleDrawRedo(d) ==
  IF Len(d.undonePointsRef) = 0 THEN d
  ELSE LET d1 == [d EXCEPT !.undonePointsRef = ButLast(@),
                           !.drawnPointsRef = Append(@, Last(d.undonePointsRef))]
           d2 == IF Len(d1.undoneSegmentsRef) > 0
                 THEN [d1 EXCEPT !.undoneSegmentsRef = ButLast(@),
                                 !.drawnSegmentsRef =
                                    Append(@, Last(d1.undoneSegmentsRef))]
                 ELSE d1
       IN  [d2 EXCEPT !.drawnPoints = d2.drawnPointsRef,
                      !.drawnSegments = d2.drawnSegmentsRef,
                      !.canRedo = Len(d2.undonePointsRef) > 0]

\* Exceptions.  Reading a property of null or undefined raises a TypeError.
\* x.length:
LengthRaises(x) == x = Null
\* line 104 without the `!seg.coords ||` in front of seg.coords.length
SkipRaisesUnguarded(seg) == LengthRaises(seg.coords)
\* line 104, `!seg.coords || seg.coords.length < 2`: || evaluates its right
\* operand only when the left one is false
SkipRaises(seg) == IF seg.coords = Null THEN FALSE ELSE LengthRaises(seg.coords)
\* line 99, `!routeSegments || routeSegments.length === 0`
EmptyRaises(segs) == IF segs = Null THEN FALSE ELSE LengthRaises(segs)
\* line 151, `(itineraryPoints || [])`, and line 163, stops.map
StopsRaise(itineraryPts) ==
  LengthRaises(IF itineraryPts = Null THEN Some(<< >>) ELSE itineraryPts)
\* the callback raises: the reads in the order of the code, up to the first
\* return
Raises(cLat, cLon, segs, itineraryPts) ==
  IF cLat = Null \/ cLon = Null THEN FALSE
  ELSE IF EmptyRaises(segs) THEN TRUE
  ELSE IF segs = Null \/ Len(Val(segs)) = 0 THEN FALSE
  ELSE IF \E k \in DOMAIN Val(segs) : SkipRaises(Val(segs)[k]) THEN TRUE
  ELSE IF Len(Flatten(Val(segs))) < 2 THEN FALSE
  ELSE StopsRaise(itineraryPts)

(***************************************************************************)
(* State: the arguments of the hook and its memoised result.               *)
(***************************************************************************)
VARIABLES
  catamaranLat,     \* Null or Some(latitude)
  catamaranLon,     \* Null or Some(longitude)
  routeSegments,    \* Null or Some(<<[coords |-> Null or Some(<<[lon, lat], ...>>)], ...>>)
  itineraryPoints,  \* Null or Some(<<[name, lat, lon], ...>>)
  speedKnots,       \* Null (argument omitted) or Some(knots)
  legContext,       \* the value of the useMemo cell: Null or Some(LegContext)
  locals,           \* the locals of the computation that produced legContext
  thrown,           \* the last call of the callback raised an exception
  seen              \* record of the calls: arguments |-> first output, number of calls

legVars == <<catamaranLat, catamaranLon, routeSegments, itineraryPoints,
             speedKnots, legContext, locals, thrown, seen>>
vars == <<chart, legVars, marker, route, draw, load, cache, sim>>

\* no useLegContext is mounted
LegIdle ==
  /\ catamaranLat = Null /\ catamaranLon = Null
  /\ routeSegments = Null /\ itineraryPoints = Null /\ speedKnots = Null
  /\ legContext = Null /\ locals = Null /\ thrown = FALSE /\ seen = << >>
\* no marker is shown
MarkerIdle == marker = Mount(<< >>, FALSE, 1)
\* no itinerary is loaded
RouteIdle == route = RouteEffect(<< >>)
\* the drawing mode was never entered
DrawIdle == draw = DrawClosed

LoadIdle == load = AppMounted(TRUE)

CacheIdle == cache = CacheEmpty

SimIdle == sim = SimOff

\* useMemo: the cell holds the value computed from the current dependencies
Memo(cLat, cLon, segs, pts, speed) ==
  /\ thrown = Raises(cLat, cLon, segs, pts)
  /\ IF thrown
     THEN legContext = Null /\ locals = Null
     ELSE \E r \in {useLegContext(cLat, cLon, segs, pts, speed)} :
            legContext = r.ret /\ locals = r.loc

\* the dependency array of line 225 compared with only the first four
\* entries
DepsChangedWithoutSpeed(cLat, cLon, segs, pts, speed) ==
  <<cLat, cLon, segs, pts>>
    # <<catamaranLat, catamaranLon, routeSegments, itineraryPoints>>
\* line 225: useMemo runs the callback again when an entry of the dependency
\* array differs from its value at the previous render
DepsChanged(cLat, cLon, segs, pts, speed) ==
  <<cLat, cLon, segs, pts, speed>>
    # <<catamaranLat, catamaranLon, routeSegments, itineraryPoints, speedKnots>>

\* a call of the hook: the arguments are taken and the cell is recomputed
\* when a dependency changed
Rerender(cLat, cLon, segs, pts, speed) ==
  /\ catamaranLat' = cLat
  /\ catamaranLon' = cLon
  /\ routeSegments' = segs
  /\ itineraryPoints' = pts
  /\ speedKnots' = speed
  /\ IF ~DepsChanged(cLat, cLon, segs, pts, speed)
     THEN UNCHANGED <<legContext, locals, thrown>>
     ELSE /\ thrown' = Raises(cLat, cLon, segs, pts)
          /\ IF thrown'
             THEN UNCHANGED <<legContext, locals>>
             ELSE \E r \in {useLegContext(cLat, cLon, segs, pts, speed)} :
                    legContext' = r.ret /\ locals' = r.loc
  /\ UNCHANGED <<chart, marker, route, draw, load, cache, sim>>

\* a call of the hook where no record of the calls is kept
Render(cLat, cLon, segs, pts, speed) ==
  Rerender(cLat, cLon, segs, pts, speed) /\ UNCHANGED seen

MaxPolyPts  == 3
MaxStops    == 3
MaxSegments == 3
MaxCoords   == 2

WA == [name |-> "A", lat |-> 4600, lon |-> -100]
WB == [name |-> "B", lat |-> 4600, lon |-> -300]
WC == [name |-> "C", lat |-> 4600, lon |-> -200]
Waypoints == {WA, WB, WC}

SeqsUpTo(S, n) == UNION {[1..k -> S] : k \in 0..n}
Injective(f) == \A i, j \in DOMAIN f : f[i] = f[j] => i = j

(***************************************************************************)
(* Tracking: the vessel moves over a published route.                      *)
(***************************************************************************)
\* a route as the route fetch publishes it: one two-point leg per edge
LegsOf(pts) == [k \in 1..(Len(pts) - 1) |-> [coords |-> Some(<<pts[k], pts[k + 1]>>)]]
TrackRoutes ==
  {Some(LegsOf(pts)) : pts \in UNION {[1..k -> PolyPts] : k \in 2..MaxPolyPts}}
TrackItineraries ==
  {Some(s) : s \in {f \in SeqsUpTo(Waypoints, MaxStops) : Injective(f)}}
TrackPositions == {<<Some(p[2]), Some(p[1])>> : p \in VesselPts}
TrackSpeeds == {Some(0), Some(6)}

TrackInit ==
  /\ ChartInit /\ CacheIdle /\ SimIdle
  /\ MarkerIdle /\ RouteIdle /\ DrawIdle /\ LoadIdle
  /\ \E p \in TrackPositions : catamaranLat = p[1] /\ catamaranLon = p[2]
  /\ routeSegments \in TrackRoutes
  /\ itineraryPoints \in TrackItineraries
  /\ speedKnots \in TrackSpeeds
  /\ Memo(catamaranLat, catamaranLon, routeSegments, itineraryPoints, speedKnots)
  /\ seen = << >>

\* the vessel position changes (catamaranLat, catamaranLon)
MovePosition ==
  \E p \in TrackPositions :
    /\ <<catamaranLat, catamaranLon>> # p
    /\ Render(p[1], p[2], routeSegments, itineraryPoints, speedKnots)

\* the speed argument changes
ChangeSpeed ==
  \E s \in TrackSpeeds \ {speedKnots} :
    Render(catamaranLat, catamaranLon, routeSegments, itineraryPoints, s)

TrackNext == MovePosition \/ ChangeSpeed
TrackSpec == TrackInit /\ [][TrackNext]_vars

(***************************************************************************)
(* Guards and flattening: the route arrives segment by segment, segments   *)
(* may lack coords, the position may be absent.                            *)
(***************************************************************************)
GuardPts == {P1, P2}
\* coords arrays: absent, up to MaxCoords points going back and forth
\* between P1 and P2, or the same point twice
Shuttle(first, n) ==
  [k \in 1..n |-> IF k % 2 = 1 THEN first ELSE CHOOSE p \in GuardPts : p # first]
Twice(p) == <<p, p>>
GuardCoords ==
  {Null} \cup {Some(Shuttle(first, n)) : first \in GuardPts, n \in 0..MaxCoords} \cup {Some(Twice(p)) : p \in GuardPts}
GuardSegments == {[coords |-> c] : c \in GuardCoords}
GuardPositions ==
  {<<lat, lon>> : lat \in {Null, Some(4600)}, lon \in {Null, Some(-200)}}
GuardItineraries == {Null, Some(<< >>), Some(<<WA, WB>>)}

GuardInit ==
  /\ ChartInit /\ CacheIdle /\ SimIdle
  /\ MarkerIdle /\ RouteIdle /\ DrawIdle /\ LoadIdle
  /\ \E p \in GuardPositions : catamaranLat = p[1] /\ catamaranLon = p[2]
  /\ routeSegments \in {Null, Some(<< >>)}
  /\ itineraryPoints \in GuardItineraries
  /\ speedKnots = Null
  /\ Memo(catamaranLat, catamaranLon, routeSegments, itineraryPoints, speedKnots)
  /\ seen = << >>

\* the position appears, disappears or loses a coordinate
SetPosition ==
  \E p \in GuardPositions :
    /\ <<catamaranLat, catamaranLon>> # p
    /\ Render(p[1], p[2], routeSegments, itineraryPoints, speedKnots)

\* one more segment is published
PushSegment ==
  \E seg \in GuardSegments :
    \E cur \in {IF routeSegments = Null THEN << >> ELSE Val(routeSegments)} :
      /\ Len(cur) < MaxSegments
      /\ Render(catamaranLat, catamaranLon, Some(Append(cur, seg)),
                itineraryPoints, speedKnots)

\* the route is reset to the empty list
ClearSegments ==
  /\ routeSegments # Some(<< >>)
  /\ Render(catamaranLat, catamaranLon, Some(<< >>), itineraryPoints, speedKnots)

GuardNext == SetPosition \/ PushSegment \/ ClearSegments
GuardSpec == GuardInit /\ [][GuardNext]_vars

(***************************************************************************)
(* Repeated calls: the hook is called again and again with arguments drawn *)
(* from a small set, and the first output of each argument tuple is kept.  *)
(***************************************************************************)
MaxCalls == 2
MemoPositions == {<<Some(p[2]), Some(p[1])>> : p \in {P1, PM, P3}}
MemoSpeeds == {Null, Some(6)}
MemoRoute == Some(LegsOf(<<P1, P2, P3>>))
MemoItinerary == Some(<<WA, WB>>)

Args == <<catamaranLat, catamaranLon, routeSegments, itineraryPoints, speedKnots>>
Record(rec, args, out) ==
  IF args \in DOMAIN rec
  THEN [rec EXCEPT ![args].calls = Min2(MaxCalls, @ + 1)]
  ELSE [a \in DOMAIN rec \cup {args} |->
          IF a = args THEN [out |-> out, calls |-> 1] ELSE rec[a]]

MemoInit ==
  /\ ChartInit /\ CacheIdle /\ SimIdle
  /\ MarkerIdle /\ RouteIdle /\ DrawIdle /\ LoadIdle
  /\ \E p \in MemoPositions : catamaranLat = p[1] /\ catamaranLon = p[2]
  /\ routeSegments = MemoRoute
  /\ itineraryPoints = MemoItinerary
  /\ speedKnots \in MemoSpeeds
  /\ Memo(catamaranLat, catamaranLon, routeSegments, itineraryPoints, speedKnots)
  /\ seen = Record(<< >>, Args, legContext)

\* the component renders again, with the same or with other arguments
CallAgain ==
  \E p \in MemoPositions, s \in MemoSpeeds :
    /\ Rerender(p[1], p[2], routeSegments, itineraryPoints, s)
    /\ seen' = Record(seen, Args', legContext')

MemoNext == CallAgain
MemoSpec == MemoInit /\ [][MemoNext]_vars

(***************************************************************************)
(* Marker offsets: the map is ready, the set of markers changes.           *)
(***************************************************************************)
MaxMarkers == 3
MA  == [name |-> "A",  lat |-> 0,  lon |-> 0]
MA2 == [name |-> "A2", lat |-> 0,  lon |-> 0]
MB  == [name |-> "B",  lat |-> 8,  lon |-> 6]
MC  == [name |-> "C",  lat |-> 40, lon |-> 30]
MF  == [name |-> "F",  lat |-> 48, lon |-> 20]
MD  == [name |-> "D",  lat |-> 0,  lon |-> 150]
MarkerPts == {MA, MA2, MB, MC, MF, MD}
OffsetLists == {f \in SeqsUpTo(MarkerPts, MaxMarkers) : Injective(f)}
OffsetZooms == {1, 2}

OffsetsInit ==
  /\ ChartInit /\ CacheIdle /\ SimIdle
  /\ LegIdle /\ RouteIdle /\ DrawIdle /\ LoadIdle
  /\ \E pts \in OffsetLists, z \in OffsetZooms : marker = Mount(pts, TRUE, z)

\* the component renders with another array of points
ChangePointSet ==
  /\ \E pts \in OffsetLists \ {marker.points} : marker' = SetPoints(marker, pts)
  /\ UNCHANGED <<chart, legVars, route, draw, load, cache, sim>>

OffsetsNext == ChangePointSet
OffsetsSpec == OffsetsInit /\ [][OffsetsNext]_vars

(***************************************************************************)
(* Marker life cycle: the map loads, the viewport changes, time passes     *)
(* and the set of markers changes.  Time advances in steps of TICK_MS; a   *)
(* timer that is due runs before time advances further.                    *)
(***************************************************************************)
MaxEvents == 3
TICK_MS == 4 * 10
MarkerLists == {<< >>, <<MA, MB>>, <<MA, MB, MD>>}
MarkerZooms == {1, 2}

MarkerInit ==
  /\ ChartInit /\ CacheIdle /\ SimIdle
  /\ LegIdle /\ RouteIdle /\ DrawIdle /\ LoadIdle
  /\ \E pts \in MarkerLists, ready \in BOOLEAN : marker = Mount(pts, ready, 1)

\* the component renders with another array of points
NewPoints ==
  /\ \E pts \in MarkerLists \ {marker.points} : marker' = SetPoints(marker, pts)
  /\ UNCHANGED <<chart, legVars, route, draw, load, cache, sim>>

\* the map component sets mapRef.current
MapLoaded ==
  /\ ~marker.mapReady
  /\ marker' = [marker EXCEPT !.mapReady = TRUE]
  /\ UNCHANGED <<chart, legVars, route, draw, load, cache, sim>>

\* the viewport changed: the map emits zoomend or moveend
MapEvent ==
  /\ marker.mapReady
  /\ marker.events < MaxEvents
  /\ \E z \in MarkerZooms :
       marker' = [Dispatch([marker EXCEPT !.zoom = z], marker.listeners, 1)
                    EXCEPT !.age = Some(0), !.fires = 0, !.firedAge = Null,
                           !.events = @ + 1]
  /\ UNCHANGED <<chart, legVars, route, draw, load, cache, sim>>

Due(t) == t # Null /\ Val(t).due = 0
Later(t) == IF t = Null THEN Null ELSE Some([Val(t) EXCEPT !.due = @ - TICK_MS])

\* TICK_MS pass
Tick ==
  /\ ~Due(marker.timerRef) /\ ~Due(marker.poll)
  /\ \/ marker.timerRef # Null
     \/ marker.poll # Null
     \/ (marker.age # Null /\ Val(marker.age) < DEBOUNCE_MS)
  /\ marker' = [marker EXCEPT
                  !.timerRef = Later(@), !.poll = Later(@),
                  !.age = IF @ = Null THEN Null
                          ELSE Some(Min2(DEBOUNCE_MS, Val(@) + TICK_MS))]
  /\ UNCHANGED <<chart, legVars, route, draw, load, cache, sim>>

\* the debounce timer runs compute
TimerFires ==
  /\ Due(marker.timerRef)
  /\ marker' = [TimerFired(marker) EXCEPT !.fires = Min2(2, @ + 1),
                                          !.firedAge = marker.age]
  /\ UNCHANGED <<chart, legVars, route, draw, load, cache, sim>>

\* the polling interval runs attachListeners
PollFires ==
  /\ Due(marker.poll)
  /\ marker' = PollFired(marker)
  /\ UNCHANGED <<chart, legVars, route, draw, load, cache, sim>>

MarkerNext ==
  NewPoints \/ MapLoaded \/ MapEvent \/ Tick \/ TimerFires \/ PollFires
MarkerSpec == MarkerInit /\ [][MarkerNext]_vars
\* the runtime runs a timer that is due, and time passes
MarkerLiveSpec ==
  MarkerSpec /\ WF_vars(Tick) /\ WF_vars(TimerFires) /\ WF_vars(PollFires)

(***************************************************************************)
(* Route legs: the effect of line 644 runs for ITINERARY_POINTS and for    *)
(* the itineraries obtained by leaving out intermediate points.            *)
(***************************************************************************)
\* the places in ITINERARY_POINTS of eight "Point intermediaire" entries
Droppable == {3, 5, 6, 8, 20, 21, 22, 31}
RECURSIVE Without(_, _, _)
Without(names, D, i) ==
  IF i > Len(names) THEN << >>
  ELSE (IF i \in D THEN << >> ELSE <<names[i]>>) \o Without(names, D, i + 1)
RouteLists == {PointsNamed(Without(ItineraryNames, D, 1)) : D \in SUBSET Droppable}

RouteInit ==
  /\ ChartInit /\ CacheIdle /\ SimIdle
  /\ LegIdle /\ MarkerIdle /\ DrawIdle /\ LoadIdle
  /\ route = RouteEffect(<< >>)

\* the mount effect (lines 639-641): setPoints gives points its value, once,
\* and the route-fetch effect runs: it builds the legs and starts loading
SetItinerary ==
  /\ route.points = << >>
  /\ \E pts \in RouteLists : route' = RouteEffect(pts)
  /\ load' = startLoad(load, route'.legs)
  /\ UNCHANGED <<chart, legVars, marker, draw, cache, sim>>

RouteNext == SetItinerary
RouteSpec == RouteInit /\ [][RouteNext]_vars

(***************************************************************************)
(* Loading: the legs are requested batch after batch; a request ends with  *)
(* a route, with an error or with a body the code does not know; the map   *)
(* is created at any moment.                                               *)
(***************************************************************************)
\* legs of one load whose request does not end with a route
MaxFailed == 1
\* ITINERARY_POINTS, and two shorter itineraries: 35, 34 and 32 legs
LoadLists ==
  {PointsNamed(Without(ItineraryNames, D, 1)) : D \in {{}, {3}, {3, 5, 6}}}

LoadInit ==
  /\ ChartInit /\ CacheIdle /\ SimIdle
  /\ LegIdle /\ MarkerIdle /\ RouteIdle /\ DrawIdle
  /\ \E batched \in BOOLEAN : load = AppMounted(batched)

\* the mount effect (lines 639-641) and the route-fetch effect
LoadItinerary ==
  /\ route.points = << >>
  /\ \E pts \in LoadLists : route' = RouteEffect(pts)
  /\ load' = startLoad(load, route'.legs)
  /\ UNCHANGED <<chart, legVars, marker, draw, cache, sim>>

\* the map component has created the map: mapRef.current is set
MapMounts ==
  /\ ~load.mapRef
  /\ load' = [load EXCEPT !.mapRef = TRUE]
  /\ UNCHANGED <<chart, legVars, marker, route, draw, cache, sim>>

Failed(results) == Len(results) - Len(Valid(results))

\* every request of the batch has ended: Promise.all resolves
BatchCompletes ==
  /\ load.run # Null
  /\ LET batch == slice(route.legs, Val(load.run).i)
         left == MaxFailed - Failed(Val(load.run).accumulated)
     IN  \E replies \in [DOMAIN batch -> Replies] :
           /\ Cardinality({k \in DOMAIN batch : replies[k] # "route"}) <= left
           /\ \A k \in DOMAIN batch :
                <<batch[k].from.name, batch[k].to.name>> \in nonMaritimeNames
                  => replies[k] = "route"
           /\ load' = batchDone(load, route.legs,
                        [k \in DOMAIN batch |-> fetchLeg(batch[k], replies[k])])
  /\ UNCHANGED <<chart, legVars, marker, route, draw, cache, sim>>

LoadNext == LoadItinerary \/ MapMounts \/ BatchCompletes
LoadSpec == LoadInit /\ [][LoadNext]_vars
\* every request ends, so Promise.all resolves
LoadLiveSpec == LoadSpec /\ WF_vars(BatchCompletes)

(***************************************************************************)
(* Drawing: the user enters and leaves the drawing mode, clicks, undoes    *)
(* and redoes, while the route requests are answered in any order.         *)
(***************************************************************************)
MaxDrawn == 3
MaxInflight == 2
MaxSessions == 2
MaxFetchId == 3
Q1 == [lat |-> 10, lon |-> 20]
Q2 == [lat |-> 30, lon |-> 40]
DrawPts == {Q1, Q2}
\* the coordinates the /route service answers with
RouteCoords(from, to) == <<<<from.lon, from.lat>>, <<to.lon, to.lat>>>>

DrawInit ==
  /\ ChartInit /\ CacheIdle /\ SimIdle
  /\ LegIdle /\ MarkerIdle /\ RouteIdle /\ LoadIdle
  /\ draw = DrawClosed

\* "Draw your own route" (shown while not drawing)
DrawStart ==
  /\ ~draw.drawingMode
  /\ draw.session < MaxSessions
  /\ draw' = handleDrawStart(draw)
  /\ UNCHANGED <<chart, legVars, marker, route, load, cache, sim>>

\* "Finish" (shown while drawing)
DrawFinish ==
  /\ draw.drawingMode
  /\ draw' = handleDrawFinish(draw)
  /\ UNCHANGED <<chart, legVars, marker, route, load, cache, sim>>

\* a click on the map while drawing (line 990)
DrawingClick ==
  /\ draw.drawingMode
  /\ Len(draw.drawnPointsRef) < MaxDrawn
  /\ Len(draw.drawnPointsRef) >= 1 =>
       /\ Cardinality(draw.inflight) < MaxInflight
       /\ draw.fetchIdRef < MaxFetchId
  /\ \E p \in DrawPts : draw' = handleDrawingClick(draw, p)
  /\ UNCHANGED <<chart, legVars, marker, route, load, cache, sim>>

\* the Undo button (enabled while drawnPoints is not empty)
DrawUndo ==
  /\ draw.drawingMode
  /\ Len(draw.drawnPoints) > 0
  /\ draw.fetchIdRef < MaxFetchId
  /\ draw' = handleDrawUndo(draw)
  /\ UNCHANGED <<chart, legVars, marker, route, load, cache, sim>>

\* the Redo button (enabled while canRedo)
DrawRedo ==
  /\ draw.drawingMode
  /\ draw.canRedo
  /\ draw' = handleDrawRedo(draw)
  /\ UNCHANGED <<chart, legVars, marker, route, load, cache, sim>>

\* the response of a request arrives, with a route or without one
FetchResponse ==
  /\ \E f \in draw.inflight, ok \in BOOLEAN :
       draw' = FetchReturned(draw, f,
                 IF ok THEN RouteCoords(f.from, f.to) ELSE << >>)
  /\ UNCHANGED <<chart, legVars, marker, route, load, cache, sim>>

DrawNext ==
  DrawStart \/ DrawFinish \/ DrawingClick \/ DrawUndo \/ DrawRedo \/ FetchResponse
DrawSpec == DrawInit /\ [][DrawNext]_vars

(***************************************************************************)
(* Plan cache: plans are stored and read for two languages while the       *)
(* clock advances by half days.                                            *)
(***************************************************************************)
MaxHalfDays == 4
HALF_DAY_MS == 12 * 60 * 60 * 1000
\* expedition plans as the orchestrator returns them
Plans == {[briefing |-> "A"], [briefing |-> "B"]}

CacheInit ==
  /\ ChartInit /\ SimIdle
  /\ LegIdle /\ MarkerIdle /\ RouteIdle /\ DrawIdle /\ LoadIdle
  /\ cache = CacheEmpty

\* line 632, setCachedPlan(lang, data.expedition_plan)
StorePlan ==
  /\ \E lang \in Langs, data \in Plans, stored \in BOOLEAN :
       cache' = setCachedPlan(cache, lang, data, stored)
  /\ UNCHANGED <<chart, legVars, marker, route, draw, load, sim>>

\* line 616, getCachedPlan(lang)
ReadPlan ==
  /\ \E lang \in Langs : cache' = getCachedPlan(cache, lang)
  /\ UNCHANGED <<chart, legVars, marker, route, draw, load, sim>>

\* twelve hours pass
HalfDayPasses ==
  /\ cache.now < MaxHalfDays * HALF_DAY_MS
  /\ cache' = [cache EXCEPT !.now = @ + HALF_DAY_MS, !.read = Null]
  /\ UNCHANGED <<chart, legVars, marker, route, draw, load, sim>>

CacheNext == StorePlan \/ ReadPlan \/ HalfDayPasses
CacheSpec == CacheInit /\ [][CacheNext]_vars

(***************************************************************************)
(* Simulation: the route arrives, the user switches the simulation mode    *)
(* on and off, drags the catamaran and advances it.                        *)
(***************************************************************************)
\* what the route request can publish: nothing, a segment without a line,
\* a route of two legs
SimRoutes == {<< >>, <<[coords |-> Some(<<P1>>)]>>, LegsOf(<<P1, P2, P3>>)}
\* where the marker is dropped
DragPositions == {[lat |-> Lat(p), lon |-> Lon(p)] : p \in {P1, PM}}

SimInit ==
  /\ ChartInit /\ CacheIdle
  /\ LegIdle /\ MarkerIdle /\ RouteIdle /\ DrawIdle /\ LoadIdle
  /\ sim = SimOff

\* the request of the mount effect ends (lines 1902-1923)
RouteFetched ==
  /\ ~sim.fetched
  /\ \E segments \in SimRoutes : sim' = routeFetched(sim, segments)
  /\ UNCHANGED <<chart, legVars, marker, route, draw, load, cache>>

SimulationToggle ==
  /\ sim' = onSimulationToggle(sim)
  /\ UNCHANGED <<chart, legVars, marker, route, draw, load, cache>>

\* the marker is there in simulation mode only (line 2227)
CatamaranDrag ==
  /\ sim.simulationMode
  /\ \E pos \in DragPositions : sim' = onDrag(sim, pos)
  /\ UNCHANGED <<chart, legVars, marker, route, draw, load, cache>>

\* the Advance button, enabled while canAdvance (line 2093)
Advance ==
  /\ sim.simulationMode
  /\ sim.simPointIndex < Len(ItineraryLatLon) - 1
  /\ sim' = advanceCatamaranToNextMidpoint(sim)
  /\ UNCHANGED <<chart, legVars, marker, route, draw, load, cache>>

SimNext == RouteFetched \/ SimulationToggle \/ CatamaranDrag \/ Advance
SimSpec == SimInit /\ [][SimNext]_vars

(***************************************************************************)
(* Properties of useLegContext.  Ret is the returned LegContext, Loc the    *)
(* locals it was built from; both exist exactly when the hook returned a   *)
(* result.                                                                  *)
(***************************************************************************)
Tracked == legContext # Null
Ret == Val(legContext)
Loc == Val(locals)

Edges(polyline) == 0..(Len(polyline) - 2)

\* the sum of the lengths of the edges whose index is in S
RECURSIVE SumEdges(_, _)
SumEdges(polyline, S) ==
  IF S = {} THEN 0
  ELSE LET j == CHOOSE j \in S : TRUE
       IN  EdgeNm(polyline, j) + SumEdges(polyline, S \ {j})

\* the stops of the sorted list whose polyline index exceeds the snapped edge
Ahead(stopIndices, bestSegIdx) ==
  {i \in 0..(Len(stopIndices) - 1) : At(stopIndices, i).polyIdx > bestSegIdx}
Least(S) == CHOOSE i \in S : \A j \in S : i <= j

\* the sorted list holds every waypoint once, each with the index of a
\* polyline point nearest to it, in ascending order of that index
MappedAndSorted(stopIndices, polyline, stops) ==
  /\ Len(stopIndices) = Len(stops)
  /\ {stopIndices[k].stop : k \in DOMAIN stopIndices} = {stops[k] : k \in DOMAIN stops}
  /\ \A k \in DOMAIN stopIndices :
       /\ stopIndices[k].polyIdx \in 0..(Len(polyline) - 1)
       /\ \A j \in 0..(Len(polyline) - 1) :
            haversineNm(stopIndices[k].stop.lat, stopIndices[k].stop.lon,
                        Lat(At(polyline, stopIndices[k].polyIdx)),
                        Lon(At(polyline, stopIndices[k].polyIdx)))
            <= haversineNm(stopIndices[k].stop.lat, stopIndices[k].stop.lon,
                           Lat(At(polyline, j)), Lon(At(polyline, j)))
  /\ \A k, l \in DOMAIN stopIndices :
       k < l => stopIndices[k].polyIdx <= stopIndices[l].polyIdx

\* C1: once every waypoint is mapped to its nearest polyline index and the
\* waypoints are sorted by that index, `to` is the first waypoint of the
\* sorted list whose index is strictly greater than the snapped edge index
\* and `from` is the one before it, or the first waypoint itself when `to`
\* is the first.
C1_ActiveLeg ==
  Tracked =>
    /\ MappedAndSorted(Loc.stopIndices, Loc.polyline, Val(itineraryPoints))
    /\ Ahead(Loc.stopIndices, Loc.bestSegIdx) # {} =>
         LET i == Least(Ahead(Loc.stopIndices, Loc.bestSegIdx))
         IN  /\ Ret.toStopIndex = i
             /\ Ret.toStop = At(Loc.stopIndices, i).stop.name
             /\ Ret.fromStopIndex = (IF i > 0 THEN i - 1 ELSE 0)
             /\ Ret.fromStop =
                  At(Loc.stopIndices, IF i > 0 THEN i - 1 ELSE 0).stop.name

\* the waypoints are given as <<B, A>>, the sort puts A first, the vessel is
\* on the first edge: from A to B
C1_Witness ==
  /\ Tracked
  /\ Len(Val(itineraryPoints)) = 2
  /\ Val(itineraryPoints)[1].name = "B"
  /\ Loc.bestSegIdx = 0
  /\ Ahead(Loc.stopIndices, Loc.bestSegIdx) = {1}
  /\ Ret.fromStop = "A" /\ Ret.toStop = "B"

\* C2: when no waypoint's polyline index exceeds the snapped edge index,
\* `to` is the last waypoint of the sorted list and `from` is the
\* second-to-last.
C2_FallbackLeg ==
  (Tracked /\ Len(Loc.stopIndices) >= 2
           /\ Ahead(Loc.stopIndices, Loc.bestSegIdx) = {}) =>
    /\ Ret.toStop = At(Loc.stopIndices, Len(Loc.stopIndices) - 1).stop.name
    /\ Ret.fromStop = At(Loc.stopIndices, Len(Loc.stopIndices) - 2).stop.name

\* three waypoints, the vessel past the last of them: the hook reports the
\* leg from the first waypoint to the last
C2_Witness ==
  /\ Tracked
  /\ Len(Loc.stopIndices) = 3
  /\ Ahead(Loc.stopIndices, Loc.bestSegIdx) = {}
  /\ Ret.fromStop = At(Loc.stopIndices, 0).stop.name
  /\ Ret.fromStop # At(Loc.stopIndices, 1).stop.name
  /\ Ret.toStop = At(Loc.stopIndices, 2).stop.name

\* the vessel is exactly on the interior vertex of the straight westward
\* route P1 -> P2 -> P3, waypoints A (at P1) and B (at P3), speed above 0
OnWestwardVertex ==
  /\ routeSegments = Some(LegsOf(<<P1, P2, P3>>))
  /\ itineraryPoints \in {Some(<<WA, WB>>), Some(<<WB, WA>>)}
  /\ catamaranLat = Some(Lat(P2)) /\ catamaranLon = Some(Lon(P2))
  /\ speedKnots = Some(6)

\* C3: for a vessel exactly on an interior vertex of a straight westward
\* polyline, with waypoint A at the first point and B at the last, the hook
\* reports from = A, to = B, a bearing of about 270 degrees, a remaining
\* distance equal to the length of the edge from the vessel to B, and
\* eta = that distance / speed.
C3_WestwardVertex ==
  OnWestwardVertex =>
    /\ Tracked
    /\ Ret.fromStop = "A" /\ Ret.toStop = "B"
    /\ Ret.bearing \in 269..271
    /\ Loc.nmRemainingToStop = EdgeNm(<<P1, P2, P3>>, 1)
    /\ Ret.nmRemainingToStop = MathRound(EdgeNm(<<P1, P2, P3>>, 1), MILLI)
    /\ Ret.etaHours * MILLI = DivR(EdgeNm(<<P1, P2, P3>>, 1), 6)

\* what the hook reports there: the vessel is snapped to the end of the
\* edge behind it and the bearing is taken from the vertex to itself
C3_Witness ==
  /\ OnWestwardVertex
  /\ Tracked
  /\ Ret.fromStop = "A" /\ Ret.toStop = "B"
  /\ Loc.bestSegIdx = 0 /\ Loc.bestT = ONE_T
  /\ Ret.snappedPosition = P2
  /\ Ret.bearing = 0
  /\ Loc.nmRemainingToStop = EdgeNm(<<P1, P2, P3>>, 1)

\* the flattened polyline, from the description: the coords of the segments
\* with at least 2 coordinates, the first in full, the later ones without
\* their first coordinate
Contributes(seg) == seg.coords # Null /\ Len(Val(seg.coords)) >= 2
RECURSIVE JoinTails(_)
JoinTails(segs) ==
  IF segs = << >> THEN << >>
  ELSE Tail(Val(segs[1].coords)) \o JoinTails(Tail(segs))
ExpectedPolyline(segs) ==
  LET c == SelectSeq(segs, Contributes)
  IN  IF c = << >> THEN << >> ELSE Val(c[1].coords) \o JoinTails(Tail(c))

\* C4: the hook returns null whenever the latitude or the longitude is
\* absent, whenever routeSegments is missing or empty, and whenever the
\* flattened polyline has fewer than 2 points, whatever the other arguments.
C4_NullResult ==
  (\/ catamaranLat = Null
   \/ catamaranLon = Null
   \/ routeSegments = Null
   \/ Len(Val(routeSegments)) = 0
   \/ Len(ExpectedPolyline(Val(routeSegments))) < 2) => legContext = Null

\* position present, segments present, none of them with 2 coordinates
C4_Witness ==
  /\ catamaranLat # Null /\ catamaranLon # Null
  /\ routeSegments # Null
  /\ Len(Val(routeSegments)) = MaxSegments
  /\ \E k \in DOMAIN Val(routeSegments) :
       Val(routeSegments)[k].coords # Null
       /\ Len(Val(Val(routeSegments)[k].coords)) = 1
  /\ \A k \in DOMAIN Val(routeSegments) : ~Contributes(Val(routeSegments)[k])
  /\ itineraryPoints # Null
  /\ legContext = Null

\* C5: the polyline is the concatenation, in order, of the coords of the
\* segments with at least 2 coordinates, the first of them in full and each
\* later one without its first coordinate, equal to the previous last
\* coordinate or not; the other segments contribute nothing and are not
\* 'the first'.
C5_Flatten ==
  Tracked => Loc.polyline = ExpectedPolyline(Val(routeSegments))

\* a skipped segment ahead of the first contributing one, then a segment
\* whose first coordinate differs from the previous last and is dropped
C5_Witness ==
  /\ Tracked
  /\ Len(Val(routeSegments)) = 3
  /\ ~Contributes(Val(routeSegments)[1])
  /\ Contributes(Val(routeSegments)[2])
  /\ Contributes(Val(routeSegments)[3])
  /\ Val(Val(routeSegments)[3].coords)[1] # Val(Val(routeSegments)[2].coords)[2]
  /\ Loc.polyline = Val(Val(routeSegments)[2].coords)
                      \o Tail(Val(Val(routeSegments)[3].coords))

\* the clamped projection of the vessel position onto edge i
ProjectionOn(polyline, i) ==
  projectOnSegment(Val(catamaranLat), Val(catamaranLon),
                   Lat(At(polyline, i)), Lon(At(polyline, i)),
                   Lat(At(polyline, i + 1)), Lon(At(polyline, i + 1)))

\* C6: the snapped edge index, t and snapped point are those of an edge
\* whose clamped projection of the vessel position has the minimum distance
\* to the vessel; no edge has a strictly smaller projection distance.
C6_SnapMinimal ==
  Tracked =>
    /\ Loc.bestSegIdx \in Edges(Loc.polyline)
    /\ Loc.bestDist = ProjectionOn(Loc.polyline, Loc.bestSegIdx).distNm
    /\ Loc.bestT = ProjectionOn(Loc.polyline, Loc.bestSegIdx).t
    /\ Loc.bestSnap = Some(ProjectionOn(Loc.polyline, Loc.bestSegIdx).point)
    /\ Ret.snappedPosition = ProjectionOn(Loc.polyline, Loc.bestSegIdx).point
    /\ \A i \in Edges(Loc.polyline) :
         ProjectionOn(Loc.polyline, i).distNm >= Loc.bestDist

\* the vessel is off the route, the nearest edge is not the first one and
\* the foot of the perpendicular is inside it
C6_Witness ==
  /\ Tracked
  /\ Loc.bestSegIdx = 1
  /\ Loc.bestDist > 0
  /\ Loc.bestT > 0 /\ Loc.bestT < ONE_T
  /\ ProjectionOn(Loc.polyline, 0).distNm > Loc.bestDist

\* C7: if the polyline index of `to` is greater than the snapped edge index,
\* the remaining distance is (1 - t) x the length of the snapped edge plus
\* the lengths of the edges strictly between the snapped edge and the
\* polyline index of `to`; otherwise it is 0.
C7_Remaining ==
  (Tracked /\ Len(Loc.stopIndices) > 0) =>
    LET toPolyIdx == At(Loc.stopIndices, Ret.toStopIndex).polyIdx
        expected ==
          IF toPolyIdx > Loc.bestSegIdx
          THEN DivR((ONE_T - Loc.bestT) * EdgeNm(Loc.polyline, Loc.bestSegIdx),
                    ONE_T)
               + SumEdges(Loc.polyline,
                          {j \in Edges(Loc.polyline) :
                             Loc.bestSegIdx < j /\ j < toPolyIdx})
          ELSE 0
    IN  /\ Loc.nmRemainingToStop = expected
        /\ Ret.nmRemainingToStop = MathRound(expected, MILLI)

\* half of the snapped edge and one whole edge remain
C7_Witness ==
  /\ Tracked
  /\ Len(Loc.stopIndices) > 0
  /\ Loc.bestSegIdx = 0 /\ Loc.bestT = 500
  /\ At(Loc.stopIndices, Ret.toStopIndex).polyIdx = 2
  /\ EdgeNm(Loc.polyline, 0) > 0 /\ EdgeNm(Loc.polyline, 1) > 0
  /\ Loc.nmRemainingToStop
       = DivR(EdgeNm(Loc.polyline, 0), 2) + EdgeNm(Loc.polyline, 1)

\* C8: nmCovered is the sum of the lengths of the edges before the snapped
\* edge plus t times the length of the snapped edge, before the display
\* rounding.
C8_Covered ==
  Tracked =>
    LET expected ==
          SumEdges(Loc.polyline,
                   {j \in Edges(Loc.polyline) : j < Loc.bestSegIdx})
          + DivR(Loc.bestT * EdgeNm(Loc.polyline, Loc.bestSegIdx), ONE_T)
    IN  /\ Loc.nmCoveredTotal = expected
        /\ Ret.nmCovered = MathRound(expected, MILLI)

\* one whole edge and half of the snapped edge are covered
C8_Witness ==
  /\ Tracked
  /\ Loc.bestSegIdx = 1 /\ Loc.bestT = 500
  /\ EdgeNm(Loc.polyline, 0) > 0 /\ EdgeNm(Loc.polyline, 1) > 0
  /\ Loc.nmCoveredTotal
       = EdgeNm(Loc.polyline, 0) + DivR(EdgeNm(Loc.polyline, 1), 2)

\* the places of the route a position is at: <<edge, t>> with the position
\* on the edge
PlacesOf(polyline, lat, lon) ==
  {<<i, projectOnSegment(lat, lon,
                         Lat(At(polyline, i)), Lon(At(polyline, i)),
                         Lat(At(polyline, i + 1)), Lon(At(polyline, i + 1))).t>> :
     i \in {j \in Edges(polyline) :
              projectOnSegment(lat, lon,
                Lat(At(polyline, j)), Lon(At(polyline, j)),
                Lat(At(polyline, j + 1)), Lon(At(polyline, j + 1))).distNm = 0}}
\* the distance along the route from its start to a place
AlongRoute(polyline, place) ==
  SumEdges(polyline, {j \in Edges(polyline) : j < place[1]})
  + DivR(place[2] * EdgeNm(polyline, place[1]), ONE_T)
\* the second position is at a place of the route further along than a
\* place of the first
FurtherAlong(polyline, lat1, lon1, lat2, lon2) ==
  \E a \in PlacesOf(polyline, lat1, lon1) :
    \E b \in PlacesOf(polyline, lat2, lon2) :
      AlongRoute(polyline, a) < AlongRoute(polyline, b)

\* C9: nmCovered does not decrease when the vessel moves from a position on
\* the polyline to a position further along it, on routes that revisit a
\* point too.
C9_CoveredMonotone ==
  [][(/\ Tracked
      /\ routeSegments' = routeSegments
      /\ legContext' # Null
      /\ FurtherAlong(Loc.polyline, Val(catamaranLat), Val(catamaranLon),
                      Val(catamaranLat'), Val(catamaranLon')))
     => Val(legContext').nmCovered >= Ret.nmCovered]_vars

\* out and back: at the end of the route P1 -> P2 -> P1 the vessel is
\* snapped to its start
C9_Witness ==
  /\ Tracked
  /\ Loc.polyline = <<P1, P2, P1>>
  /\ catamaranLat = Some(Lat(P1)) /\ catamaranLon = Some(Lon(P1))
  /\ <<1, ONE_T>> \in PlacesOf(Loc.polyline, Lat(P1), Lon(P1))
  /\ Ret.nmCovered = 0

\* C10: etaHours is the remaining distance divided by the speed when the
\* speed is above 0, and 0 otherwise; it is not rounded.
C10_Eta ==
  Tracked =>
    /\ Ret.speedKnots > 0 =>
         Ret.etaHours * MILLI = DivR(Loc.nmRemainingToStop, Ret.speedKnots)
    /\ Ret.speedKnots <= 0 => Ret.etaHours = 0

\* 41.707 nm at 6 knots: 6.951 h, reported as 7
C10_Witness ==
  /\ Tracked
  /\ Ret.speedKnots = 6
  /\ Loc.nmRemainingToStop = 41707
  /\ Loc.etaHours = 6951
  /\ Ret.etaHours = 7

\* C11: the projection parameter t of every edge projection, and the t of
\* the chosen snap, lies in [0, 1] for every vessel position and every edge;
\* on a zero-length edge t is 0 and the projected point is the edge's start.
C11_ProjectionClamped ==
  Tracked =>
    /\ Loc.bestT >= 0 /\ Loc.bestT <= ONE_T
    /\ \A i \in Edges(Loc.polyline) :
         /\ ProjectionOn(Loc.polyline, i).t >= 0
         /\ ProjectionOn(Loc.polyline, i).t <= ONE_T
         /\ At(Loc.polyline, i) = At(Loc.polyline, i + 1) =>
              /\ ProjectionOn(Loc.polyline, i).t = 0
              /\ ProjectionOn(Loc.polyline, i).point = At(Loc.polyline, i)

\* the vessel is beyond the end of edge 0 (the unclamped parameter would
\* be 2) and edge 1 has zero length
C11_Witness ==
  /\ Tracked
  /\ Loc.polyline = <<P1, P2, P2>>
  /\ <<Val(catamaranLon), Val(catamaranLat)>> = P3
  /\ ProjectionOn(Loc.polyline, 0).t = ONE_T
  /\ ProjectionOn(Loc.polyline, 0).point = P2
  /\ ProjectionOn(Loc.polyline, 1).t = 0

\* the vessel position as a [lon, lat] point
VesselPt == <<Val(catamaranLon), Val(catamaranLat)>>
Vertices(polyline) == {polyline[k] : k \in DOMAIN polyline}

C14_Deterministic ==
  /\ Args \in DOMAIN seen
  /\ seen[Args].out = legContext
  /\ ~thrown
  /\ legContext = useLegContext(catamaranLat, catamaranLon, routeSegments,
                                itineraryPoints, speedKnots).ret

\* the current arguments are used for the second time, after calls with
\* at least two other argument tuples
C14_Witness ==
  /\ Args \in DOMAIN seen
  /\ seen[Args].calls = 2
  /\ Cardinality(DOMAIN seen) >= 3
  /\ Tracked
  /\ seen[Args].out = legContext

(***************************************************************************)
(* Properties of useMarkerOffsets.                                         *)
(***************************************************************************)
\* the screen position of the k-th current point, and the screen distance
\* of two of them (hundredths of a pixel)
Screen(k) == project(marker.points[k], marker.zoom)
PairDist(i, j) ==
  ScreenDist(Screen(j).x - Screen(i).x, Screen(j).y - Screen(i).y)
Pairs == {ij \in (DOMAIN marker.points) \X (DOMAIN marker.points) : ij[1] < ij[2]}
Overlapping(i, j) ==
  /\ 2 * PairDist(i, j) > CPX
  /\ PairDist(i, j) < OVERLAP_THRESHOLD * CPX
\* the unit vector from i to j scaled by (52 - d)/2 + 3
PushVector(i, j) ==
  LET d    == PairDist(i, j)
      push == DivR(OVERLAP_THRESHOLD * CPX - d, 2) + 3 * CPX
  IN  <<DivR(DivR((Screen(j).x - Screen(i).x) * CPX * 1000, d) * push, 1000),
        DivR(DivR((Screen(j).y - Screen(i).y) * CPX * 1000, d) * push, 1000)>>
\* what the pair (i, j) adds to the offset of point k
Share(k, i, j) ==
  IF ~Overlapping(i, j) THEN <<0, 0>>
  ELSE IF k = i THEN <<-PushVector(i, j)[1], -PushVector(i, j)[2]>>
  ELSE IF k = j THEN PushVector(i, j)
  ELSE <<0, 0>>
RECURSIVE SumShares(_, _)
SumShares(k, S) ==
  IF S = {} THEN <<0, 0>>
  ELSE LET ij == CHOOSE p \in S : TRUE
           rest == SumShares(k, S \ {ij})
       IN  <<Share(k, ij[1], ij[2])[1] + rest[1],
             Share(k, ij[1], ij[2])[2] + rest[2]>>

\* C15: after a computation on the current points, the offset of every
\* point is the sum over all pairs i < j with 0.5 < d < 52 of the unit vector
\* from i to j scaled by (52 - d)/2 + 3, subtracted for point i and added
\* for point j; pairs with d >= 52 or d <= 0.5 add nothing.
C15_PairRule ==
  Len(marker.points) > 0 =>
    /\ DOMAIN marker.offsets = DOMAIN marker.points
    /\ \A k \in DOMAIN marker.points :
         marker.offsets[k] = SumShares(k, Pairs)

\* A and F are exactly 52 px apart and add nothing; B overlaps both A and F
\* and its offset is the sum of the two pushes
C15_Witness ==
  /\ marker.points = <<MA, MF, MB>> /\ marker.zoom = 1
  /\ PairDist(1, 2) = OVERLAP_THRESHOLD * CPX
  /\ Overlapping(1, 3) /\ Overlapping(2, 3)
  /\ marker.offsets[1] = <<-PushVector(1, 3)[1], -PushVector(1, 3)[2]>>
  /\ marker.offsets[2] = <<-PushVector(2, 3)[1], -PushVector(2, 3)[2]>>
  /\ marker.offsets[3] = <<PushVector(1, 3)[1] + PushVector(2, 3)[1],
                           PushVector(1, 3)[2] + PushVector(2, 3)[2]>>
  /\ PushVector(1, 3) = <<1440, 1920>>

\* the length of an offset (hundredths of a pixel), and equality to within
\* a twentieth of a pixel
Magnitude(v) == Sqrt(v[1] * v[1] + v[2] * v[2])
Approx(a, b) == 20 * Abs(a - b) <= CPX
\* the amount (52 - d)/2 + 3 for the pair (i, j)
Amount(i, j) == DivR(OVERLAP_THRESHOLD * CPX - PairDist(i, j), 2) + 3 * CPX
\* point k is at least 52 px from every other point
Distant(k) ==
  \A h \in DOMAIN marker.points \ {k} :
    PairDist(k, h) >= OVERLAP_THRESHOLD * CPX
\* i and j overlap each other and no other point
OverlapOnly(i, j) ==
  /\ Overlapping(i, j)
  /\ \A h \in DOMAIN marker.points \ {i, j} :
       ~Overlapping(i, h) /\ ~Overlapping(h, i) /\ ~Overlapping(j, h) /\ ~Overlapping(h, j)
Opposite(v, w) == v[1] = -w[1] /\ v[2] = -w[2]

\* C16, as stated: two points d apart, 0.5 < d < 52, that overlap no other
\* point receive opposite offsets whose magnitudes SUM to about
\* (52 - d)/2 + 3; a point at least 52 px from every other point receives
\* the zero offset.
C16_Scenario ==
  Len(marker.points) > 0 =>
    /\ \A ij \in Pairs :
         OverlapOnly(ij[1], ij[2]) =>
           /\ Opposite(marker.offsets[ij[1]], marker.offsets[ij[2]])
           /\ Approx(Magnitude(marker.offsets[ij[1]])
                       + Magnitude(marker.offsets[ij[2]]),
                     Amount(ij[1], ij[2]))
    /\ \A k \in DOMAIN marker.points :
         Distant(k) => marker.offsets[k] = <<0, 0>>

\* C16, amended: the two offsets are opposite and EACH has magnitude about
\* (52 - d)/2 + 3, so that the magnitudes sum to about 52 - d + 6 (48 px
\* for d = 10); a point at least 52 px from every other point receives the
\* zero offset.
C16_ScenarioEach ==
  Len(marker.points) > 0 =>
    /\ \A ij \in Pairs :
         OverlapOnly(ij[1], ij[2]) =>
           /\ Opposite(marker.offsets[ij[1]], marker.offsets[ij[2]])
           /\ Approx(Magnitude(marker.offsets[ij[1]]), Amount(ij[1], ij[2]))
           /\ Approx(Magnitude(marker.offsets[ij[2]]), Amount(ij[1], ij[2]))
    /\ \A k \in DOMAIN marker.points :
         Distant(k) => marker.offsets[k] = <<0, 0>>

\* A and B are 10 px apart, D is 150 px away: A and B are pushed 24 px
\* each, in opposite directions, and D stays
C16_Witness ==
  /\ marker.points = <<MA, MB, MD>> /\ marker.zoom = 1
  /\ PairDist(1, 2) = 10 * CPX
  /\ OverlapOnly(1, 2) /\ Distant(3)
  /\ marker.offsets = <<<<-1440, -1920>>, <<1440, 1920>>, <<0, 0>>>>
  /\ Magnitude(marker.offsets[1]) = 24 * CPX
  /\ Magnitude(marker.offsets[2]) = 24 * CPX

\* C17: in every reachable state the returned offsets array has exactly one
\* [dx, dy] entry per current input point, and is empty when the current
\* point set is empty.
C17_OnePerPoint ==
  /\ Len(marker.offsets) = Len(marker.points)
  /\ \A k \in DOMAIN marker.offsets : Len(marker.offsets[k]) = 2
  /\ marker.points = << >> => marker.offsets = << >>

\* the hook was mounted with two overlapping points and the map ready, the
\* point set then became empty, nothing is pending, and the hook still
\* returns the two offsets
C17_Witness ==
  /\ marker.points = << >>
  /\ marker.mapReady
  /\ marker.timerRef = Null /\ marker.poll = Null
  /\ marker.listeners = << >>
  /\ marker.offsets = <<<<-1440, -1920>>, <<1440, 1920>>>>

\* the offsets are those of the current points under the current projection
Fresh == marker.offsets = Repulsion(marker.points, marker.zoom)

\* the debounce alone: the timer callback runs at most once after a map
\* event, 120 ms after the last one
DebounceOnce ==
  /\ marker.fires <= 1
  /\ marker.firedAge \in {Null, Some(DEBOUNCE_MS)}
  /\ marker.timerRef # Null =>
       Val(marker.timerRef).due = DEBOUNCE_MS - Val(marker.age)

\* C18: after every zoomend or moveend, and after every change of the point
\* set, the offsets are eventually recomputed with the current points and
\* projection; a burst of map events, each less than 120 ms after the
\* previous one, produces exactly one recomputation, 120 ms after the last
\* event of the burst.
C18_RecomputePolicy ==
  /\ []DebounceOnce
  /\ ((marker.mapReady /\ ~Fresh) ~> Fresh)

\* the hook was mounted with three points before the map was there and the
\* poll registered its schedule; the point set became empty, a map event
\* ran that schedule, the point set became <<A, B>>, and 120 ms after the
\* event the timer computed the offsets of the three former points: nothing
\* is pending and the offsets are not those of the current points
C18_Witness ==
  /\ marker.points = <<MA, MB>>
  /\ marker.listeners = <<<<MA, MB, MD>>, <<MA, MB>>>>
  /\ marker.fires = 1 /\ marker.firedAge = Some(DEBOUNCE_MS)
  /\ marker.timerRef = Null /\ marker.poll = Null
  /\ marker.offsets = Repulsion(<<MA, MB, MD>>, marker.zoom)
  /\ ~Fresh

(***************************************************************************)
(* Properties of the route-fetch effect.                                   *)
(***************************************************************************)
\* a leg from the point named a to the point named b
IsLeg(leg, a, b) == leg.from.name = a /\ leg.to.name = b
\* the leg a -> b stands immediately after a leg that arrives at a
FollowsArrival(legs, a, b) ==
  \E k \in 1..(Len(legs) - 1) :
    legs[k].to.name = a /\ IsLeg(legs[k + 1], a, b)
\* the legs start at points further and further along the itinerary
InItineraryOrder(legs) ==
  \A h, k \in DOMAIN legs : h < k => legs[h].from.id <= legs[k].from.id

\* C19: the Halifax -> Saint-Pierre leg stands immediately after the leg
\* that arrives at Halifax and the Marigot -> Cayenne leg immediately after
\* the leg that arrives at Marigot; the leg list is in itinerary order and
\* each leg appears exactly once.
C19_LegList ==
  Len(route.points) > 0 =>
    /\ FollowsArrival(route.legs, HALIFAX, SAINT_PIERRE)
    /\ FollowsArrival(route.legs, MARIGOT, CAYENNE)
    /\ InItineraryOrder(route.legs)
    /\ Injective(route.legs)

\* the effect has run for ITINERARY_POINTS: no leg arrives at Halifax, the
\* custom Halifax -> Saint-Pierre leg is the first of the list, and the
\* sequential Halifax -> Saint-Pierre leg is in the list as well
C19_Witness ==
  /\ route.points = ITINERARY_POINTS
  /\ Len(route.legs) = 35
  /\ findIndexTo(SequentialLegs(route.points, 0, << >>), HALIFAX) = -1
  /\ IsLeg(route.legs[1], HALIFAX, SAINT_PIERRE)
  /\ Cardinality({k \in DOMAIN route.legs :
                    IsLeg(route.legs[k], HALIFAX, SAINT_PIERRE)}) = 2
  /\ FollowsArrival(route.legs, MARIGOT, CAYENNE)

(***************************************************************************)
(* Properties of the drawing mode.                                         *)
(***************************************************************************)
\* C20: a route-segment fetch that is in flight when handleDrawUndo runs
\* never appends its segment to drawnSegments, and never changes
\* drawingLoading, after that undo, whatever the order of the responses.
C20_UndoGuard == ~draw.landed

\* a request was in flight during an undo; the drawing was finished and
\* started again, two clicks started a request that has the same fetch id,
\* and the response of the old request has been appended to drawnSegments
C20_Witness ==
  /\ draw.landed
  /\ draw.session = 2
  /\ draw.drawingMode
  /\ Len(draw.drawnPoints) = 2
  /\ Len(draw.drawnSegments) = 1
  /\ \E f \in draw.inflight :
       /\ f.session = 2 /\ ~f.undone
       /\ f.myFetchId = draw.fetchIdRef
       /\ draw.drawnSegments[1].coords # RouteCoords(f.from, f.to)

\* C21: in every reachable drawing state canRedo is true exactly when the
\* stack of undone points is not empty; a drawing click empties both redo
\* stacks, so that a redo right after the click changes nothing.
C21_RedoAvailable ==
  /\ draw.canRedo <=> Len(draw.undonePointsRef) > 0
  /\ draw.drawingMode =>
       \A p \in DrawPts :
         LET clicked == handleDrawingClick(draw, p)
         IN  /\ clicked.undonePointsRef = << >>
             /\ clicked.undoneSegmentsRef = << >>
             /\ ~clicked.canRedo
             /\ handleDrawRedo(clicked) = clicked

\* a point and its segment have been undone, Redo is enabled, and a click
\* here throws both away
C21_Witness ==
  /\ draw.drawingMode
  /\ draw.canRedo
  /\ Len(draw.undonePointsRef) > 0
  /\ Len(draw.undoneSegmentsRef) > 0
  /\ Len(draw.drawnPointsRef) < MaxDrawn
  /\ handleDrawRedo(draw) # draw
  /\ handleDrawingClick(draw, Q1).undoneSegmentsRef = << >>

\* C26: a route-segment fetch started in one drawing session never appends
\* its segment to the drawn route of a later session, whatever clicks and
\* responses follow _resetDrawState.
C26_SessionGuard == ~draw.crossed

\* in the second session two points are drawn and their request is still in
\* flight; the one segment of the drawing is the route between two points
\* of the first session
C26_Witness ==
  /\ draw.crossed
  /\ draw.session = 2
  /\ draw.drawnPoints = <<Q1, Q1>>
  /\ draw.drawnSegments = <<[coords |-> RouteCoords(Q1, Q2)]>>
  /\ \E f \in draw.inflight : f.session = 2

\* the drawing is complete: one segment per pair of consecutive points,
\* segment k being the route between the points k and k+1
Complete ==
  /\ Len(draw.drawnSegments) = Max2(0, Len(draw.drawnPoints) - 1)
  /\ \A k \in DOMAIN draw.drawnSegments :
       draw.drawnSegments[k].coords
         = RouteCoords(draw.drawnPoints[k], draw.drawnPoints[k + 1])

\* C27: when every route fetch succeeds with coordinates, in every drawing
\* state in which no fetch is in flight, drawnSegments has exactly
\* max(0, drawnPoints.length - 1) entries and entry k is the route between
\* the drawn points k and k+1.
C27_SegmentsMatchPoints ==
  (~draw.failed /\ draw.inflight = {}) => Complete

\* first session, no undo: the third point was clicked before the route to
\* the second had arrived; both requests have answered with a route, and
\* the drawing has three points and the one segment from the second to
\* the third
C27_Witness ==
  /\ ~draw.failed /\ draw.inflight = {}
  /\ draw.session = 1 /\ draw.drawingMode
  /\ ~draw.canRedo /\ draw.fetchIdRef = 2
  /\ draw.drawnPoints = <<Q1, Q2, Q1>>
  /\ draw.drawnSegments = <<[coords |-> RouteCoords(Q2, Q1)]>>

(***************************************************************************)
(* Properties of the progressive loading.                                  *)
(***************************************************************************)
Loaded == route.points # << >> /\ load.run = Null
\* the number of legs whose batch has completed
Fetched == IF load.run = Null THEN Len(route.legs) ELSE Val(load.run).i
\* the results of the completed batches: result k is the result of leg k
ResultsOfLegs(results) ==
  \A k \in DOMAIN results :
    results[k] # Null =>
      /\ Val(results[k]).from = route.legs[k].from
      /\ Val(results[k]).to = route.legs[k].to
\* the segments are in leg order: for some increasing choice of legs
RECURSIVE InLegOrder(_, _)
InLegOrder(segs, k) ==
  IF Len(segs) = 0 THEN TRUE
  ELSE \E h \in k..Fetched :
         /\ route.legs[h].from = Head(segs).from
         /\ route.legs[h].to = Head(segs).to
         /\ Len(Head(segs).coords) > 0
         /\ InLegOrder(Tail(segs), h + 1)
BatchInvariant ==
  route.points # << >> =>
    /\ Fetched % SEGMENT_BATCH_SIZE = 0 \/ Fetched = Len(route.legs)
    /\ load.run # Null =>
         /\ Len(Val(load.run).accumulated) = Fetched
         /\ ResultsOfLegs(Val(load.run).accumulated)
         /\ load.segments = Valid(Val(load.run).accumulated)
    /\ InLegOrder(load.segments, 1)
    /\ Len(load.segments) >= Fetched - MaxFailed
    /\ load.segProgress.total = Len(route.legs)
    /\ load.segProgress.done = Fetched
    /\ load.segProgress.done <= load.segProgress.total
    /\ load.loading <=> Fetched = 0
DoneGrows == load'.segProgress.done >= load.segProgress.done

\* C22: the legs are fetched in consecutive batches of at most 4; after the
\* batch that starts at i has completed, the published segments are the
\* results with coordinates of legs[0 .. min(i+4, n)) in leg order and
\* segProgress.done = min(i+4, n); done never decreases, never exceeds
\* total and finally equals total; loading is false from the completion of
\* the first batch on.
C22_BatchedLoading ==
  /\ []BatchInvariant
  /\ [][DoneGrows]_vars
  /\ (route.points # << >>) ~> (load.segProgress.done = load.segProgress.total)

\* a load of 35 legs has ended; one request failed, so 34 segments are
\* published, and the last batch had 3 legs
C22_Witness ==
  /\ Loaded
  /\ Len(route.legs) = 35
  /\ load.segProgress = [done |-> 35, total |-> 35]
  /\ Len(load.segments) = 34
  /\ ~load.loading

\* C23: during one route load map.fitBounds is called at most once, and
\* only in a state where segProgress.done has reached segProgress.total.
C23_FitOnce ==
  /\ Len(load.fits) <= 1
  /\ \A k \in DOMAIN load.fits :
       /\ load.fits[k].total = Len(route.legs)
       /\ load.fits[k].done = load.fits[k].total

\* a load of 35 legs (nine batches) has ended, React rendering after each
\* update, and fitBounds has been called
C23_Witness ==
  /\ Loaded
  /\ Len(route.legs) = 35
  /\ Len(load.fits) = 1
  /\ load.boundsApplied
  /\ ~load.batched

(***************************************************************************)
(* Properties of the plan cache.                                           *)
(***************************************************************************)
\* C24: getCachedPlan(lang) returns the data of the latest stored
\* setCachedPlan(lang, data) exactly when that entry was stored at most 24
\* hours before the read; otherwise it returns null and no entry of the
\* language is left in the storage; what is stored for another language
\* plays no part.
C24_PlanCache ==
  cache.read # Null =>
    LET lang == Val(cache.read).lang
        ret == Val(cache.read).ret
        entry == cache.latest[lang]
    IN  IF entry # Null /\ cache.now - Val(entry).ts <= PLAN_CACHE_TTL
        THEN ret = Some(Val(entry).data)
        ELSE /\ ret = Null
             /\ cache.storage[planCacheKey(lang)] = Null

\* a plan stored exactly 24 hours ago is read back, while the other
\* language holds another plan, stored later
C24_Witness ==
  /\ cache.read # Null
  /\ Val(cache.read).ret # Null
  /\ \E lang \in Langs, other \in Langs :
       /\ lang # other
       /\ Val(cache.read).lang = lang
       /\ cache.now - Val(cache.latest[lang]).ts = PLAN_CACHE_TTL
       /\ cache.latest[other] # Null
       /\ Val(cache.latest[other]).data # Val(cache.latest[lang]).data
       /\ Val(cache.latest[other]).ts > Val(cache.latest[lang]).ts

(***************************************************************************)
(* Properties of the simulation mode.                                      *)
(***************************************************************************)
\* the loaded route has a segment with 2 or more coordinates
HasLine(segments) ==
  \E k \in DOMAIN segments :
    segments[k].coords # Null /\ Len(Val(segments[k].coords)) >= 2

\* C25: whenever the simulation mode is on and the loaded route has at
\* least one segment with 2 or more coordinates, the legContext the App
\* computes from the catamaran position is not null.
C25_SimulationWiring ==
  (sim.simulationMode /\ HasLine(sim.segments)) => sim.legContext # Null

\* the route is loaded, the simulation is on and the catamaran was dropped
\* on the route; the hook called with the latitude, the longitude and the
\* segments returns a context, the call App makes returned null
C25_Witness ==
  /\ sim.simulationMode
  /\ HasLine(sim.segments)
  /\ sim.catamaranPos = Some([lat |-> Lat(PM), lon |-> Lon(PM)])
  /\ sim.legContext = Null
  /\ useLegContext(Some(Lat(PM)), Some(Lon(PM)), Some(sim.segments),
                   Some(<< >>), Null).ret # Null

=============================================================================
